---------------------------- MODULE Spec2Model ----------------------------
(***************************************************************************)
(* Model of the passkey authentication client (src/src/passkey.js):        *)
(* the base64url codec, the ceremony option translators, the registration  *)
(* and login flows, and API-key issuance.                                  *)
(*                                                                         *)
(* Conventions.  A JavaScript string is a sequence of one-character        *)
(* strings.  A byte buffer is a sequence of numbers in 0..255.  A value    *)
(* that may be absent (undefined / null / a missing property) is a         *)
(* sequence of length 0 (None) or 1 (Some(v)).                             *)
(***************************************************************************)
EXTENDS Integers, Sequences, FiniteSets, TLC

None == <<>>
Some(v) == <<v>>
IsSome(o) == Len(o) = 1
IsNone(o) == Len(o) = 0

\* JavaScript truthiness of an optional string atom: undefined and "" are falsy.
TruthyStr(o) == IsSome(o) /\ o[1] # ""

\* JavaScript truthiness of an optional number: undefined and 0 are falsy.
TruthyNum(o) == IsSome(o) /\ o[1] # 0

\* JavaScript truthiness of an optional boolean.
TruthyBool(o) == IsSome(o) /\ o[1] = TRUE

\* a || b with the default forgotten: a falsy a gives ""
OrStrNoDefault(o, d) == IF TruthyStr(o) THEN o[1] ELSE ""

\* a || b on optional string atoms, b a plain string
OrStr(o, d) == IF TruthyStr(o) THEN o[1] ELSE d

\* a || b on optional numbers
OrNum(o, d) == IF TruthyNum(o) THEN o[1] ELSE d

(***************************************************************************)
(* Binary codec                                                            *)
(***************************************************************************)
B64Chars ==
  << "A","B","C","D","E","F","G","H","I","J","K","L","M","N","O","P",
     "Q","R","S","T","U","V","W","X","Y","Z","a","b","c","d","e","f",
     "g","h","i","j","k","l","m","n","o","p","q","r","s","t","u","v",
     "w","x","y","z","0","1","2","3","4","5","6","7","8","9","+","/" >>

B64Alphabet == { B64Chars[i] : i \in 1..64 }

AsciiWhitespace == { " ", "\t", "\n", "\f", "\r" }

\* the character of a 6-bit value
B64Char(v) == B64Chars[v + 1]

\* the 6-bit value of a character of the standard alphabet
B64Val(c) == (CHOOSE i \in 1..64 : B64Chars[i] = c) - 1

RECURSIVE btoa(_)
\* window.btoa on a binary string given as its char codes: standard base64
\* with "=" padding
btoa(b) ==
  IF Len(b) = 0 THEN <<>>
  ELSE IF Len(b) = 1 THEN
    << B64Char(b[1] \div 4), B64Char((b[1] % 4) * 16), "=", "=" >>
  ELSE IF Len(b) = 2 THEN
    << B64Char(b[1] \div 4), B64Char((b[1] % 4) * 16 + b[2] \div 16),
       B64Char((b[2] % 16) * 4), "=" >>
  ELSE
    << B64Char(b[1] \div 4), B64Char((b[1] % 4) * 16 + b[2] \div 16),
       B64Char((b[2] % 16) * 4 + b[3] \div 64), B64Char(b[3] % 64) >>
    \o btoa(SubSeq(b, 4, Len(b)))

\* s.replace(/x/g, y) for one-character x and y
ReplaceAll(s, x, y) == [ i \in 1..Len(s) |-> IF s[i] = x THEN y ELSE s[i] ]

RECURSIVE StripTrailingEq(_)
\* s.replace(/=+$/, "")
StripTrailingEq(s) ==
  IF Len(s) > 0 /\ s[Len(s)] = "=" THEN StripTrailingEq(SubSeq(s, 1, Len(s) - 1))
  ELSE s

\* base64UrlEncode without .replace(/=+$/, ""): the padding is kept
base64UrlEncodePadded(buffer) ==
  ReplaceAll(ReplaceAll(btoa(buffer), "+", "-"), "/", "_")

\* base64UrlEncode(buffer)
base64UrlEncode(buffer) ==
  StripTrailingEq(ReplaceAll(ReplaceAll(btoa(buffer), "+", "-"), "/", "_"))

RECURSIVE RemoveWhitespace(_)
RemoveWhitespace(s) ==
  IF Len(s) = 0 THEN <<>>
  ELSE IF s[1] \in AsciiWhitespace THEN RemoveWhitespace(Tail(s))
  ELSE <<s[1]>> \o RemoveWhitespace(Tail(s))

\* forgiving-base64: when the length is a multiple of 4, one or two trailing
\* "=" are removed
RemovePadding(s) ==
  IF Len(s) % 4 = 0 /\ Len(s) > 0 /\ s[Len(s)] = "=" THEN
    IF s[Len(s) - 1] = "=" THEN SubSeq(s, 1, Len(s) - 2)
    ELSE SubSeq(s, 1, Len(s) - 1)
  ELSE s

RECURSIVE DecodeGroups(_)
\* the bytes of a string of alphabet characters whose length mod 4 is not 1
DecodeGroups(s) ==
  IF Len(s) = 0 THEN <<>>
  ELSE IF Len(s) = 2 THEN
    << B64Val(s[1]) * 4 + B64Val(s[2]) \div 16 >>
  ELSE IF Len(s) = 3 THEN
    << B64Val(s[1]) * 4 + B64Val(s[2]) \div 16,
       (B64Val(s[2]) % 16) * 16 + B64Val(s[3]) \div 4 >>
  ELSE
    << B64Val(s[1]) * 4 + B64Val(s[2]) \div 16,
       (B64Val(s[2]) % 16) * 16 + B64Val(s[3]) \div 4,
       (B64Val(s[3]) % 4) * 64 + B64Val(s[4]) >>
    \o DecodeGroups(SubSeq(s, 5, Len(s)))

\* window.atob: [ok, bytes]; ok = FALSE is the InvalidCharacterError it throws
atob(data) ==
  LET s == RemovePadding(RemoveWhitespace(data)) IN
    IF Len(s) % 4 = 1 \/ \E i \in 1..Len(s) : s[i] \notin B64Alphabet
    THEN [ ok |-> FALSE, bytes |-> <<>> ]
    ELSE [ ok |-> TRUE, bytes |-> DecodeGroups(s) ]

\* "=".repeat(n)
RepeatEq(n) == [ i \in 1..n |-> "=" ]

\* base64UrlDecode with a missing string read as the empty string
\* ((str || "").replace ...) and an undecodable one as no bytes
base64UrlDecodeLenient(str) == [ throws |-> "none", bytes |-> <<>> ]

\* base64UrlDecode without the two .replace calls: the string goes to atob
\* in the URL alphabet
base64UrlDecodeUntranslated(str) ==
  IF IsNone(str) THEN [ throws |-> "TypeError", bytes |-> <<>> ]
  ELSE
    LET base64 == str[1]
        padding == Len(base64) % 4
        padded == IF padding # 0 THEN base64 \o RepeatEq(4 - padding) ELSE base64
        r == atob(padded)
    IN IF r.ok THEN [ throws |-> "none", bytes |-> r.bytes ]
       ELSE [ throws |-> "InvalidCharacterError", bytes |-> <<>> ]

\* base64UrlDecode dropping a dangling last character (length mod 4 = 1)
\* instead of padding it
base64UrlDecodeTruncating(str) ==
  IF IsNone(str) THEN [ throws |-> "TypeError", bytes |-> <<>> ]
  ELSE
    LET replaced == ReplaceAll(ReplaceAll(str[1], "-", "+"), "_", "/")
        base64 == IF Len(replaced) % 4 = 1
                  THEN SubSeq(replaced, 1, Len(replaced) - 1) ELSE replaced
        padding == Len(base64) % 4
        padded == IF padding # 0 THEN base64 \o RepeatEq(4 - padding) ELSE base64
        r == atob(padded)
    IN IF r.ok THEN [ throws |-> "none", bytes |-> r.bytes ]
       ELSE [ throws |-> "InvalidCharacterError", bytes |-> <<>> ]

\* base64UrlDecode accepting padding-stripped strings only: a string with
\* "=" is refused
base64UrlDecodeStrippedOnly(str) ==
  IF IsNone(str) THEN [ throws |-> "TypeError", bytes |-> <<>> ]
  ELSE
    LET base64 == ReplaceAll(ReplaceAll(str[1], "-", "+"), "_", "/")
        padding == Len(base64) % 4
        padded == IF padding # 0 THEN base64 \o RepeatEq(4 - padding) ELSE base64
        r == atob(padded)
    IN IF r.ok /\ \A i \in 1..Len(base64) : base64[i] # "="
       THEN [ throws |-> "none", bytes |-> r.bytes ]
       ELSE [ throws |-> "InvalidCharacterError", bytes |-> <<>> ]

\* base64UrlDecode(str), str optional: [throws, bytes] with throws one of
\* "none", "TypeError" (str is undefined: str.replace is not callable) and
\* "InvalidCharacterError" (atob rejects the string)
base64UrlDecode(str) ==
  IF IsNone(str) THEN [ throws |-> "TypeError", bytes |-> <<>> ]
  ELSE
    LET base64 == ReplaceAll(ReplaceAll(str[1], "-", "+"), "_", "/")
        padding == Len(base64) % 4
        padded == IF padding # 0 THEN base64 \o RepeatEq(4 - padding) ELSE base64
        r == atob(padded)
    IN IF r.ok THEN [ throws |-> "none", bytes |-> r.bytes ]
       ELSE [ throws |-> "InvalidCharacterError", bytes |-> <<>> ]

\* the sequences over S of length at most n
SeqsUpTo(S, n) == UNION { [ 1..k -> S ] : k \in 0..n }

(***************************************************************************)
(* Ceremony option translators                                             *)
(*                                                                         *)
(* A translator either returns the platform request or throws:             *)
(* [throws |-> "none", value |-> Some(request)] or                         *)
(* [throws |-> <error name>, value |-> None].                              *)
(***************************************************************************)
Thrown(e) == [ throws |-> e, value |-> None ]
Returned(v) == [ throws |-> "none", value |-> Some(v) ]

DefaultTimeout == 60000

\* the first error thrown when decoding the ids of a credential list in
\* order, "none" when every id decodes
RECURSIVE FirstDecodeError(_)
FirstDecodeError(creds) ==
  IF Len(creds) = 0 THEN "none"
  ELSE IF base64UrlDecode(creds[1].id).throws # "none"
       THEN base64UrlDecode(creds[1].id).throws
       ELSE FirstDecodeError(Tail(creds))

\* the credential list mapped in reverse order
ConvertCredentialListReversed(list) ==
  LET creds == IF IsSome(list) THEN list[1] ELSE <<>> IN
    [ i \in 1..Len(creds) |->
        [ id |-> base64UrlDecode(creds[Len(creds) + 1 - i].id).bytes,
          type |-> creds[Len(creds) + 1 - i].type,
          transports |-> creds[Len(creds) + 1 - i].transports ] ]

\* (list || []).map(cred => ({id: base64UrlDecode(cred.id), type, transports}))
ConvertCredentialList(list) ==
  LET creds == IF IsSome(list) THEN list[1] ELSE <<>> IN
    [ i \in 1..Len(creds) |->
        [ id |-> base64UrlDecode(creds[i].id).bytes,
          type |-> creds[i].type,
          transports |-> creds[i].transports ] ]

\* x?.field for an optional record x
OptField(x, field) == IF IsSome(x) THEN x[1][field] ELSE None

\* convertCreationOptions(serverOptions)
convertCreationOptions(serverOptions) ==
  LET publicKey == serverOptions.publicKey IN
  IF IsNone(publicKey) THEN Thrown("TypeError")
  ELSE
    LET pk == publicKey[1]
        ch == base64UrlDecode(pk.challenge)
    IN
    IF ch.throws # "none" THEN Thrown(ch.throws)
    ELSE IF IsNone(pk.user) THEN Thrown("TypeError")
    ELSE
      LET user == pk.user[1]
          uid == base64UrlDecode(user.id)
          excl == IF IsSome(pk.excludeCredentials)
                  THEN pk.excludeCredentials[1] ELSE <<>>
      IN
      IF uid.throws # "none" THEN Thrown(uid.throws)
      ELSE IF FirstDecodeError(excl) # "none" THEN Thrown(FirstDecodeError(excl))
      ELSE Returned(
        [ challenge |-> ch.bytes,
          rp |-> pk.rp,
          user |-> [ id |-> uid.bytes,
                     name |-> user.name,
                     displayName |-> IF TruthyStr(user.displayName)
                                     THEN user.displayName ELSE user.name ],
          pubKeyCredParams |-> pk.pubKeyCredParams,
          timeout |-> OrNum(pk.timeout, DefaultTimeout),
          attestation |-> OrStr(pk.attestation, "none"),
          authenticatorSelection |->
            [ authenticatorAttachment |->
                OrStr(OptField(pk.authenticatorSelection, "authenticatorAttachment"),
                      "platform"),
              residentKey |->
                OrStr(OptField(pk.authenticatorSelection, "residentKey"),
                      "preferred"),
              userVerification |->
                OrStr(OptField(pk.authenticatorSelection, "userVerification"),
                      "preferred") ],
          excludeCredentials |-> ConvertCredentialList(pk.excludeCredentials) ])

\* convertRequestOptions(serverOptions)
convertRequestOptions(serverOptions) ==
  LET publicKey == serverOptions.publicKey IN
  IF IsNone(publicKey) THEN Thrown("TypeError")
  ELSE
    LET pk == publicKey[1]
        ch == base64UrlDecode(pk.challenge)
        allow == IF IsSome(pk.allowCredentials)
                 THEN pk.allowCredentials[1] ELSE <<>>
    IN
    IF ch.throws # "none" THEN Thrown(ch.throws)
    ELSE IF FirstDecodeError(allow) # "none" THEN Thrown(FirstDecodeError(allow))
    ELSE Returned(
      [ challenge |-> ch.bytes,
        timeout |-> OrNum(pk.timeout, DefaultTimeout),
        rpId |-> pk.rpId,
        allowCredentials |-> ConvertCredentialList(pk.allowCredentials),
        userVerification |-> OrStr(pk.userVerification, "preferred") ])

(***************************************************************************)
(* Ceremony orchestrator: registerPasskey and loginPasskey                 *)
(***************************************************************************)
\* number of flow invocations that may run concurrently
NumFlows == 2

Flows == 1..NumFlows

Kinds == { "register", "login" }

VARIABLES
  pc,          \* per flow: "idle", "start", "ceremony", "finish", "done"
  kind,        \* per flow: "register" or "login" ("none" while idle)
  startRes,    \* per flow: the start response received (startRes, startData)
  challenge,   \* per flow: the raw challenge string kept for the finish step
  request,     \* per flow: the translated options handed to the authenticator
  ceremony,    \* per flow: how the authenticator invocation ended (credential, err)
  finishReq,   \* per flow: the body sent to the finish endpoint
  finishRes,   \* per flow: the finish response received (finishRes, finishData)
  result,      \* per flow: what the invocation gave its caller
  startCalls,  \* per flow: requests sent to the start endpoint
  authCalls,   \* per flow: invocations of navigator.credentials.create / get
  finishCalls, \* per flow: requests sent to the finish endpoint
  busyAtInvoke,\* per flow: another flow was between start and outcome at call time
  issued,      \* identity server: number of challenges issued so far
  akPc,        \* createApiKey: "idle", "pending", "done"
  akSession,   \* createApiKey: its sessionToken and userHash arguments
  akRes,       \* createApiKey: the response received (res, data)
  akResult,    \* createApiKey: what the invocation gave its caller
  codecPc,     \* codec calls: "off", "ready", "encoded", "decodedBack", ...
  buffer,      \* the byte buffer given to base64UrlEncode
  str,         \* the string given to base64UrlDecode
  encoded,     \* what base64UrlEncode(buffer) returned
  decodedBack, \* how base64UrlDecode(base64UrlEncode(buffer)) ended
  decodedPadded, \* how base64UrlDecode of the padded encoding of buffer ended
  decoded,     \* how base64UrlDecode(str) ended
  convPc,      \* translator calls: "off", "ready", "converted", "again"
  convKind,    \* "register": convertCreationOptions, "login": convertRequestOptions
  serverOptions, \* the options given to the translator
  translated,   \* how the translator call ended
  translatedAgain, \* how a second call with the same options ended
  config,      \* App: the config state (useState, App.jsx line 57)
  success,     \* App: the success message shown, if any
  appError,    \* App: the error message shown, if any (the error state)
  successTimers, \* App: pending setTimeout(() => setSuccess(null), 3000)
  saveCalls,   \* backend: the number of invoke("save_config") calls made
  signIns,     \* external sign-ins completed so far
  eventQueue,  \* "deep-link-auth" events emitted and not yet handled
  urlQueue,    \* onOpenUrl callbacks (each a list of URLs) not yet handled
  applied,     \* per sign-in: how often handleAuthCallback applied its credentials
  pendingSaves, \* backend: invoke("save_config") promises not yet settled
  persisted,   \* backend: the config last saved
  saving,      \* App: the saving state (handleSave in progress)
  saveOps,     \* App: saveConfig calls awaiting invoke("save_config")
  clicks,      \* Save Settings and Sign Out clicks and sign-ins completed so far
  syncStatus,  \* App: the syncStatus state (useState, App.jsx line 66)
  loadedStatus,  \* backend: the status get_sync_status gave loadState
  activityEvents, \* backend: "sync-activity" events emitted so far
  subPhase,  \* SyncPanel: the subPhase state (idle, scanning, review, ingesting, watching)
  scanResult,  \* SyncPanel: the scanResult state
  selectedFiles,  \* SyncPanel: the selectedFiles state
  panelError,  \* SyncPanel: the error set through setError, if any
  tasks,  \* SyncPanel: handler invocations awaiting a backend command
  settled,  \* the handler, command and outcome of the command that settled last
  panelClicks,  \* the user's clicks on Scan & Watch, Approve and Stop / Resume so far
  backendWatching,  \* backend: the folder watcher is running
  backendIngesting, \* backend: an approved ingestion is running
  messages,  \* QueryPanel: the messages state
  queryLoading,  \* QueryPanel: the loading state
  sessionId,  \* QueryPanel: the sessionId state
  mode,  \* QueryPanel: the mode state (ai or search)
  outstanding,  \* QueryPanel: invoke calls of handleSubmit not yet settled
  answered,  \* the command and outcome of the request that settled last
  submits,  \* the user's submits of the query form so far
  newSessions,  \* the user's clicks on New Session so far
  sessionsIssued,  \* backend: chat sessions opened by run_query so far
  ignoredSubmit  \* the input of the last submit handleSubmit ignored, if any

flowVars == << pc, kind, startRes, challenge, request, ceremony, finishReq,
               finishRes, result, startCalls, authCalls, finishCalls,
               busyAtInvoke, issued >>

akVars == << akPc, akSession, akRes, akResult >>

codecVars == << codecPc, buffer, str, encoded, decodedBack, decodedPadded,
                decoded >>

convVars == << convPc, convKind, serverOptions, translated, translatedAgain >>

uiVars == << config, success, appError, successTimers, saveCalls, signIns,
            eventQueue, urlQueue, applied, pendingSaves, persisted >>

settingsVars == << saving, saveOps, clicks >>

syncVars == << syncStatus, loadedStatus, activityEvents >>

panelVars == << subPhase, scanResult, selectedFiles, panelError, tasks,
                settled, panelClicks, backendWatching, backendIngesting >>

queryVars == << messages, queryLoading, sessionId, mode, outstanding,
                answered, submits, newSessions, sessionsIssued,
                ignoredSubmit >>

vars == << flowVars, akVars, codecVars, convVars, uiVars, settingsVars,
           syncVars, panelVars, queryVars >>

\* what an async function gives its caller: a returned object or a rejection
Failure(msg) ==
  [ type |-> "returned", ok |-> FALSE, error |-> Some(msg),
    userHash |-> None, sessionToken |-> None ]
Success(userHash, sessionToken) ==
  [ type |-> "returned", ok |-> TRUE, error |-> None,
    userHash |-> userHash, sessionToken |-> sessionToken ]
Rejected(errorName) ==
  [ type |-> "thrown", ok |-> FALSE, error |-> Some(errorName),
    userHash |-> None, sessionToken |-> None ]

StartFallback(k) ==
  IF k = "register" THEN "Failed to start registration"
  ELSE "Failed to start authentication"
CancelMessage(k) ==
  IF k = "register" THEN "User cancelled registration"
  ELSE "User cancelled authentication"
FinishFallback(k) ==
  IF k = "register" THEN "Registration failed" ELSE "Authentication failed"

\* StartRejected without the check of startData.ok
StartRejectedOptionsOnly(startData) == IsNone(OptField(startData, "options"))

\* !startData?.ok || !startData.options
StartRejected(startData) ==
  \/ ~TruthyBool(OptField(startData, "ok"))
  \/ IsNone(OptField(startData, "options"))

\* StartFailure without startData?.error: the fallback in every case
StartFailureFallbackOnly(k, startData) == Failure(StartFallback(k))

\* the object returned on a rejected start
StartFailure(k, startData) ==
  Failure(OrStr(OptField(startData, "error"), StartFallback(k)))

\* RawChallenge reading a challenge kept from the first start response
\* instead of this response's
RawChallengeKept(options) == Some(<< "A", "Q", "I", "A" >>)

\* const challenge = startData.options.publicKey?.challenge
RawChallenge(options) == OptField(options.publicKey, "challenge")

\* convertCreationOptions / convertRequestOptions, by flow kind
Translate(k, options) ==
  IF k = "register" THEN convertCreationOptions(options)
  ELSE convertRequestOptions(options)

\* the ceremony did not give a credential: the capability threw, or
\* !credential
CeremonyFailed(outcome) ==
  outcome.throws \/ IsNone(outcome.credential)

\* CeremonyFailure without err.message: the fixed message in every case
CeremonyFailureFixedMessage(k, outcome) == Failure(CancelMessage(k))

\* the object returned when the ceremony gave no credential
CeremonyFailure(k, outcome) ==
  IF outcome.throws THEN Failure(OrStr(outcome.message, CancelMessage(k)))
  ELSE Failure(CancelMessage(k))

\* credentialData: the authenticator's result with its buffers encoded
CredentialData(k, cred) ==
  IF k = "register" THEN
    [ id |-> cred.id,
      rawId |-> base64UrlEncode(cred.rawId),
      type |-> cred.type,
      response |->
        [ clientDataJSON |-> base64UrlEncode(cred.response.clientDataJSON),
          attestationObject |-> base64UrlEncode(cred.response.attestationObject) ] ]
  ELSE
    [ id |-> cred.id,
      rawId |-> base64UrlEncode(cred.rawId),
      type |-> cred.type,
      response |->
        [ clientDataJSON |-> base64UrlEncode(cred.response.clientDataJSON),
          authenticatorData |-> base64UrlEncode(cred.response.authenticatorData),
          signature |-> base64UrlEncode(cred.response.signature),
          userHandle |-> IF IsSome(cred.response.userHandle)
                         THEN Some(base64UrlEncode(cred.response.userHandle[1]))
                         ELSE None ] ]

\* FinishResult without the check of finishData.ok
FinishResultUnchecked(k, finishData) ==
  Success(OptField(finishData, "user_hash"), OptField(finishData, "session_token"))

\* FinishResult with the two identity fields exchanged
FinishResultSwapped(k, finishData) ==
  IF ~TruthyBool(OptField(finishData, "ok"))
  THEN Failure(OrStr(OptField(finishData, "error"), FinishFallback(k)))
  ELSE Success(finishData[1].session_token, finishData[1].user_hash)

\* the object returned after the finish response body was read
FinishResult(k, finishData) ==
  IF ~TruthyBool(OptField(finishData, "ok"))
  THEN Failure(OrStr(OptField(finishData, "error"), FinishFallback(k)))
  ELSE Success(finishData[1].user_hash, finishData[1].session_token)

(***************************************************************************)
(* Inputs: what the identity server and the platform authenticator may     *)
(* answer.  A response is [transport, httpOk, body]: transport is "ok",    *)
(* "networkError" (fetch rejects) or "badJson" (res.json() rejects); body  *)
(* is the parsed JSON value, None for the JSON value null.                 *)
(***************************************************************************)
NetworkError == [ transport |-> "networkError", httpOk |-> FALSE, body |-> None ]
BadJson(httpOk) == [ transport |-> "badJson", httpOk |-> httpOk, body |-> None ]
Json(httpOk, body) == [ transport |-> "ok", httpOk |-> httpOk, body |-> body ]

\* the n-th challenge the server issues, base64url on the wire
FreshChallenge(n) == << "A", "Q", "I", B64Chars[n] >>

ServerError == "passkey service unavailable"

GoodRegisterPk(c) ==
  [ challenge |-> Some(c),
    rp |-> Some("exemem.com"),
    user |-> Some([ id |-> Some(<< "d", "X", "M" >>), name |-> Some("user"),
                    displayName |-> None ]),
    pubKeyCredParams |-> Some("ES256"),
    timeout |-> None, attestation |-> None,
    authenticatorSelection |-> None, excludeCredentials |-> None ]

GoodLoginPk(c) ==
  [ challenge |-> Some(c), timeout |-> None, rpId |-> Some("exemem.com"),
    allowCredentials |-> None, userVerification |-> None ]

GoodPk(k, c) == IF k = "register" THEN GoodRegisterPk(c) ELSE GoodLoginPk(c)

BadLength == << "A" >>
BadAlphabet == << "A", "*" >>

\* publicKey descriptors the translator cannot read or decode
MalformedPks(k, c) ==
  { [ GoodPk(k, c) EXCEPT !.challenge = None ],
    [ GoodPk(k, c) EXCEPT !.challenge = Some(BadLength) ],
    [ GoodPk(k, c) EXCEPT !.challenge = Some(BadAlphabet) ] }
  \cup
  IF k = "register" THEN
    { [ GoodRegisterPk(c) EXCEPT !.user = None ],
      [ GoodRegisterPk(c) EXCEPT !.user[1].id = None ],
      [ GoodRegisterPk(c) EXCEPT !.excludeCredentials =
          Some(<< [ id |-> Some(BadLength), type |-> Some("public-key"),
                    transports |-> None ] >>) ] }
  ELSE
    { [ GoodLoginPk(c) EXCEPT !.allowCredentials =
          Some(<< [ id |-> Some(BadAlphabet), type |-> Some("public-key"),
                    transports |-> None ] >>) ] }

\* descriptors the translator reads and decodes, but that lack what the
\* authenticator needs
IncompletePks(k, c) ==
  IF k = "register" THEN
    { [ GoodRegisterPk(c) EXCEPT !.rp = None ],
      [ GoodRegisterPk(c) EXCEPT !.pubKeyCredParams = None ] }
  ELSE { [ GoodLoginPk(c) EXCEPT !.challenge = Some(<<>>) ] }

StartBody(ok, error, options) ==
  Some([ ok |-> ok, error |-> error, options |-> options ])

Options(pk) == Some([ publicKey |-> pk ])

\* start responses that do not reach the translator
StartRejections(k, c) ==
  { NetworkError, BadJson(FALSE), BadJson(TRUE),
    Json(TRUE, None),
    Json(TRUE, StartBody(Some(FALSE), Some(ServerError), None)),
    Json(FALSE, StartBody(Some(FALSE), None, None)),
    Json(TRUE, StartBody(Some(FALSE), Some(""), Options(Some(GoodPk(k, c))))),
    Json(TRUE, StartBody(None, None, Options(Some(GoodPk(k, c))))),
    Json(TRUE, StartBody(Some(TRUE), None, None)),
    Json(TRUE, StartBody(Some(TRUE), Some(ServerError), None)) }

\* every start response of the model, for flow kind k, c the fresh challenge
StartResponses(k, c) ==
  StartRejections(k, c)
  \cup { Json(TRUE, StartBody(Some(TRUE), None, Options(None))) }
  \cup { Json(TRUE, StartBody(Some(TRUE), None, Options(Some(pk)))) :
           pk \in MalformedPks(k, c) \cup IncompletePks(k, c) }
  \cup { Json(h, StartBody(Some(TRUE), None, Options(Some(GoodPk(k, c))))) :
           h \in BOOLEAN }

\* the start responses of the concurrent specification
StartResponsesCompact(k, c) ==
  { NetworkError,
    Json(TRUE, StartBody(Some(FALSE), Some(ServerError), None)),
    Json(TRUE, StartBody(Some(TRUE), None,
                         Options(Some([ GoodPk(k, c) EXCEPT !.challenge = None ])))),
    Json(TRUE, StartBody(Some(TRUE), None, Options(Some(GoodPk(k, c))))) }

\* the credential the authenticator creates or asserts for invocation n
Credential(k, n, withHandle) ==
  IF k = "register" THEN
    [ id |-> base64UrlEncode(<< n, 251, 255 >>), rawId |-> << n, 251, 255 >>,
      type |-> "public-key",
      response |-> [ clientDataJSON |-> << 123, 125 >>,
                     attestationObject |-> << 163, n >> ] ]
  ELSE
    [ id |-> base64UrlEncode(<< n, 251, 255 >>), rawId |-> << n, 251, 255 >>,
      type |-> "public-key",
      response |-> [ clientDataJSON |-> << 123, 125 >>,
                     authenticatorData |-> << 73, 150, n >>,
                     signature |-> << 48, n >>,
                     userHandle |-> IF withHandle THEN Some(<< 1 >>) ELSE None ] ]

NotAllowed == "The operation either timed out or was not allowed."

Threw(message) == [ throws |-> TRUE, message |-> message, credential |-> None ]
Gave(cred) == [ throws |-> FALSE, message |-> None, credential |-> cred ]

\* what navigator.credentials.create / get may do
CeremonyOutcomes(k, n) ==
  { Threw(Some(NotAllowed)), Threw(Some("")), Threw(None), Gave(None),
    Gave(Some(Credential(k, n, TRUE))) }
  \cup IF k = "login" THEN { Gave(Some(Credential(k, n, FALSE))) } ELSE {}

CeremonyOutcomesCompact(k, n) ==
  { Threw(Some(NotAllowed)), Gave(None), Gave(Some(Credential(k, n, TRUE))) }

FinishBody(ok, error, userHash, sessionToken) ==
  Some([ ok |-> ok, error |-> error, user_hash |-> userHash,
         session_token |-> sessionToken ])

UserHashes == { None, Some(""), Some("abc"), Some("def") }
SessionTokens == { None, Some(""), Some("xyz") }

\* every finish response of the model
FinishResponses ==
  { NetworkError, BadJson(FALSE), BadJson(TRUE), Json(TRUE, None),
    Json(TRUE, FinishBody(None, None, None, None)),
    Json(TRUE, FinishBody(Some(FALSE), Some(ServerError), None, None)),
    Json(FALSE, FinishBody(Some(FALSE), None, None, None)),
    Json(TRUE, FinishBody(Some(FALSE), Some(""), Some("abc"), Some("xyz"))),
    Json(FALSE, FinishBody(Some(TRUE), Some(ServerError), Some("abc"), Some("xyz"))) }
  \cup { Json(TRUE, FinishBody(Some(TRUE), None, u, t)) :
           u \in UserHashes, t \in SessionTokens }

FinishResponsesCompact ==
  { NetworkError,
    Json(TRUE, FinishBody(Some(FALSE), Some(ServerError), None, None)),
    Json(TRUE, FinishBody(Some(TRUE), None, Some("abc"), Some("xyz"))) }

(***************************************************************************)
(* The flows, one action per stretch of code between two awaits            *)
(***************************************************************************)
NoResponse == [ transport |-> "none", httpOk |-> FALSE, body |-> None ]
NoKeyResponse == [ transport |-> "none", status |-> 0, body |-> None ]

\* no invocation of a flow or of createApiKey has been made
InitFlows ==
  /\ pc = [ f \in Flows |-> "idle" ]
  /\ kind = [ f \in Flows |-> "none" ]
  /\ startRes = [ f \in Flows |-> NoResponse ]
  /\ challenge = [ f \in Flows |-> None ]
  /\ request = [ f \in Flows |-> None ]
  /\ ceremony = [ f \in Flows |-> None ]
  /\ finishReq = [ f \in Flows |-> None ]
  /\ finishRes = [ f \in Flows |-> NoResponse ]
  /\ result = [ f \in Flows |-> None ]
  /\ startCalls = [ f \in Flows |-> 0 ]
  /\ authCalls = [ f \in Flows |-> 0 ]
  /\ finishCalls = [ f \in Flows |-> 0 ]
  /\ busyAtInvoke = [ f \in Flows |-> FALSE ]
  /\ issued = 0
  /\ akPc = "idle"
  /\ akSession = None
  /\ akRes = NoKeyResponse
  /\ akResult = None

\* no call of the codec is followed
CodecOff ==
  /\ codecPc = "off"
  /\ buffer = <<>>
  /\ str = <<>>
  /\ encoded = None
  /\ decodedBack = None
  /\ decodedPadded = None
  /\ decoded = None

\* no call of a translator is followed
TranslatorsOff ==
  /\ convPc = "off"
  /\ convKind = "none"
  /\ serverOptions = [ publicKey |-> None ]
  /\ translated = None
  /\ translatedAgain = None

\* useState({...}) of App.jsx lines 57-65
DefaultConfig ==
  [ api_base_url |-> "", api_key |-> "", watched_folder |-> None,
    auto_ingest |-> TRUE, environment |-> "Dev",
    session_token |-> None, user_hash |-> None ]

\* no Save Settings or Sign Out click is followed
SettingsOff ==
  /\ saving = FALSE
  /\ saveOps = <<>>
  /\ clicks = 0

\* useState({...}) of App.jsx lines 66-71
DefaultSyncStatus ==
  [ watching |-> FALSE, folder |-> None, file_count |-> 0,
    recent_activity |-> <<>> ]

\* the sync status is not followed: no event arrives
SyncOff ==
  /\ syncStatus = DefaultSyncStatus
  /\ loadedStatus = DefaultSyncStatus
  /\ activityEvents = 0

\* the SyncPanel is not followed: nothing is clicked
SyncPanelOff ==
  /\ subPhase = "idle"
  /\ scanResult = None
  /\ selectedFiles = {}
  /\ panelError = None
  /\ tasks = <<>>
  /\ settled = None
  /\ panelClicks = 0
  /\ backendWatching = FALSE
  /\ backendIngesting = FALSE

\* the QueryPanel is not followed: nothing is submitted
QueryPanelOff ==
  /\ messages = <<>>
  /\ queryLoading = FALSE
  /\ sessionId = None
  /\ mode = "ai"
  /\ outstanding = <<>>
  /\ answered = None
  /\ submits = 0
  /\ newSessions = 0
  /\ sessionsIssued = 0
  /\ ignoredSubmit = None

\* the application is not followed: no sign-in arrives
AppOff ==
  /\ config = DefaultConfig
  /\ success = None
  /\ appError = None
  /\ successTimers = 0
  /\ saveCalls = 0
  /\ signIns = 0
  /\ eventQueue = <<>>
  /\ urlQueue = <<>>
  /\ applied = <<>>
  /\ pendingSaves = <<>>
  /\ persisted = DefaultConfig

Init ==
  /\ InitFlows
  /\ CodecOff
  /\ TranslatorsOff
  /\ AppOff
  /\ SettingsOff
  /\ SyncOff
  /\ SyncPanelOff
  /\ QueryPanelOff

\* a ceremony of flow g has completed its start step and has no outcome yet
InFlight(g) == pc[g] \in { "ceremony", "finish" }

\* registerPasskey(apiBaseUrl) / loginPasskey(apiBaseUrl) is called: the
\* start request is sent
Invoke(f, k) ==
  /\ pc[f] = "idle"
  /\ pc' = [ pc EXCEPT ![f] = "start" ]
  /\ kind' = [ kind EXCEPT ![f] = k ]
  /\ startCalls' = [ startCalls EXCEPT ![f] = @ + 1 ]
  /\ busyAtInvoke' = [ busyAtInvoke EXCEPT ![f] = \E g \in Flows \ {f} : InFlight(g) ]
  /\ UNCHANGED << startRes, challenge, request, ceremony, finishReq,
                  finishRes, result, authCalls, finishCalls, issued >>
  /\ UNCHANGED << akVars, codecVars, convVars, uiVars, settingsVars, syncVars,
                  panelVars, queryVars >>

\* Settle with an exception swallowed: the promise of a flow that throws is
\* never settled
SettleReturnsOnly(f, r) ==
  IF r.type = "thrown"
  THEN pc' = [ pc EXCEPT ![f] = "hung" ] /\ UNCHANGED result
  ELSE /\ pc' = [ pc EXCEPT ![f] = "done" ]
       /\ result' = [ result EXCEPT ![f] = Some(r) ]

\* the flow ends: its promise settles with r
Settle(f, r) ==
  /\ pc' = [ pc EXCEPT ![f] = "done" ]
  /\ result' = [ result EXCEPT ![f] = Some(r) ]

\* the start response arrives: read it, translate the options and invoke
\* the authenticator
StartReturns(f, res) ==
  /\ pc[f] = "start"
  /\ startRes' = [ startRes EXCEPT ![f] = res ]
  /\ issued' = issued + 1
  /\ UNCHANGED << kind, ceremony, finishReq, finishRes, startCalls, finishCalls,
                  busyAtInvoke >>
  /\ UNCHANGED << akVars, codecVars, convVars, uiVars, settingsVars, syncVars,
                  panelVars, queryVars >>
  /\ IF res.transport = "networkError" THEN
       /\ Settle(f, Rejected("TypeError"))
       /\ UNCHANGED << challenge, request, authCalls >>
     ELSE IF res.transport = "badJson" THEN
       /\ Settle(f, Rejected("SyntaxError"))
       /\ UNCHANGED << challenge, request, authCalls >>
     ELSE IF StartRejected(res.body) THEN
       /\ Settle(f, StartFailure(kind[f], res.body))
       /\ UNCHANGED << challenge, request, authCalls >>
     ELSE
       LET options == res.body[1].options[1]
           converted == Translate(kind[f], options)
       IN
       /\ challenge' = [ challenge EXCEPT ![f] = RawChallenge(options) ]
       /\ IF converted.throws # "none" THEN
            /\ Settle(f, Rejected(converted.throws))
            /\ UNCHANGED << request, authCalls >>
          ELSE
            /\ request' = [ request EXCEPT ![f] = converted.value ]
            /\ authCalls' = [ authCalls EXCEPT ![f] = @ + 1 ]
            /\ pc' = [ pc EXCEPT ![f] = "ceremony" ]
            /\ UNCHANGED result

\* CeremonyReturns with the challenge held in one place shared by all
\* invocations (that of the first flow) instead of a local of the invocation
CeremonyReturnsSharedChallenge(f, outcome) ==
  /\ pc[f] = "ceremony"
  /\ ceremony' = [ ceremony EXCEPT ![f] = Some(outcome) ]
  /\ UNCHANGED << kind, startRes, challenge, request, finishRes, startCalls,
                  authCalls, busyAtInvoke, issued >>
  /\ UNCHANGED << akVars, codecVars, convVars, uiVars, settingsVars, syncVars,
                  panelVars, queryVars >>
  /\ IF outcome.throws \/ IsNone(outcome.credential) THEN
       /\ pc' = [ pc EXCEPT ![f] = "done" ]
       /\ result' = [ result EXCEPT ![f] =
            Some(Failure(IF outcome.throws /\ TruthyStr(outcome.message)
                         THEN outcome.message[1] ELSE CancelMessage(kind[f]))) ]
       /\ UNCHANGED << finishReq, finishCalls >>
     ELSE
       /\ finishReq' = [ finishReq EXCEPT ![f] =
            Some([ challenge |-> challenge[1],
                   credential |-> CredentialData(kind[f], outcome.credential[1]) ]) ]
       /\ finishCalls' = [ finishCalls EXCEPT ![f] = @ + 1 ]
       /\ pc' = [ pc EXCEPT ![f] = "finish" ]
       /\ UNCHANGED result

\* the authenticator returns: give up, or encode its result and send the
\* finish request
CeremonyReturns(f, outcome) ==
  /\ pc[f] = "ceremony"
  /\ ceremony' = [ ceremony EXCEPT ![f] = Some(outcome) ]
  /\ UNCHANGED << kind, startRes, challenge, request, finishRes, startCalls,
                  authCalls, busyAtInvoke, issued >>
  /\ UNCHANGED << akVars, codecVars, convVars, uiVars, settingsVars, syncVars,
                  panelVars, queryVars >>
  /\ IF CeremonyFailed(outcome) THEN
       /\ Settle(f, CeremonyFailure(kind[f], outcome))
       /\ UNCHANGED << finishReq, finishCalls >>
     ELSE
       /\ finishReq' = [ finishReq EXCEPT ![f] =
            Some([ challenge |-> challenge[f],
                   credential |-> CredentialData(kind[f], outcome.credential[1]) ]) ]
       /\ finishCalls' = [ finishCalls EXCEPT ![f] = @ + 1 ]
       /\ pc' = [ pc EXCEPT ![f] = "finish" ]
       /\ UNCHANGED result

\* the finish response arrives: the flow ends
FinishReturns(f, res) ==
  /\ pc[f] = "finish"
  /\ finishRes' = [ finishRes EXCEPT ![f] = res ]
  /\ UNCHANGED << kind, startRes, challenge, request, ceremony, finishReq,
                  startCalls, authCalls, finishCalls, busyAtInvoke, issued >>
  /\ UNCHANGED << akVars, codecVars, convVars, uiVars, settingsVars, syncVars,
                  panelVars, queryVars >>
  /\ IF res.transport = "networkError" THEN Settle(f, Rejected("TypeError"))
     ELSE IF res.transport = "badJson" THEN Settle(f, Rejected("SyntaxError"))
     ELSE Settle(f, FinishResult(kind[f], res.body))

(***************************************************************************)
(* Credential issuance: createApiKey                                       *)
(***************************************************************************)
KeyFailure(msg) ==
  [ type |-> "returned", ok |-> FALSE, error |-> Some(msg), apiKey |-> None ]
KeySuccess(apiKey) ==
  [ type |-> "returned", ok |-> TRUE, error |-> None, apiKey |-> Some(apiKey) ]
KeyRejected(errorName) ==
  [ type |-> "thrown", ok |-> FALSE, error |-> Some(errorName), apiKey |-> None ]

\* res.ok: the status is in the range 200-299
HttpOk(status) == status >= 200 /\ status <= 299

\* `API key creation failed (${res.status})`
IssuanceFallback(status) == "API key creation failed (" \o ToString(status) \o ")"

\* ApiKeyResult reading data.key before data.api_key
ApiKeyResultKeyFirst(status, data) ==
  IF HttpOk(status) /\ IsNone(data) THEN KeyRejected("TypeError")
  ELSE IF ~HttpOk(status) \/ TruthyStr(data[1].error) THEN
    KeyFailure(OrStr(OptField(data, "error"), IssuanceFallback(status)))
  ELSE
    LET apiKey == IF TruthyStr(data[1].key) THEN data[1].key
                  ELSE data[1].api_key
    IN IF ~TruthyStr(apiKey) THEN KeyFailure("No API key returned from server")
       ELSE KeySuccess(apiKey[1])

\* ApiKeyResult without the check of res.ok
ApiKeyResultIgnoresStatus(status, data) ==
  IF IsNone(data) THEN KeyRejected("TypeError")
  ELSE IF TruthyStr(data[1].error) THEN KeyFailure(data[1].error[1])
  ELSE
    LET apiKey == IF TruthyStr(data[1].api_key) THEN data[1].api_key
                  ELSE data[1].key
    IN IF ~TruthyStr(apiKey) THEN KeyFailure("No API key returned from server")
       ELSE KeySuccess(apiKey[1])

\* ApiKeyResult with the server's error message dropped
ApiKeyResultFallbackOnly(status, data) ==
  IF HttpOk(status) /\ IsNone(data) THEN KeyRejected("TypeError")
  ELSE IF ~HttpOk(status) \/ TruthyStr(data[1].error) THEN
    KeyFailure(IssuanceFallback(status))
  ELSE
    LET apiKey == IF TruthyStr(data[1].api_key) THEN data[1].api_key
                  ELSE data[1].key
    IN IF ~TruthyStr(apiKey) THEN KeyFailure("No API key returned from server")
       ELSE KeySuccess(apiKey[1])

\* what createApiKey gives once the response body was read as data
ApiKeyResult(status, data) ==
  IF HttpOk(status) /\ IsNone(data) THEN KeyRejected("TypeError")
  ELSE IF ~HttpOk(status) \/ TruthyStr(data[1].error) THEN
    KeyFailure(OrStr(OptField(data, "error"), IssuanceFallback(status)))
  ELSE
    LET apiKey == IF TruthyStr(data[1].api_key) THEN data[1].api_key
                  ELSE data[1].key
    IN IF ~TruthyStr(apiKey) THEN KeyFailure("No API key returned from server")
       ELSE KeySuccess(apiKey[1])

KeyNetworkError == [ transport |-> "networkError", status |-> 0, body |-> None ]
KeyBadJson(status) == [ transport |-> "badJson", status |-> status, body |-> None ]
KeyJson(status, body) == [ transport |-> "ok", status |-> status, body |-> body ]
KeyBody(error, apiKey, key) ==
  Some([ error |-> error, api_key |-> apiKey, key |-> key ])

\* every issuance response of the model
KeyResponses ==
  { KeyNetworkError, KeyBadJson(502), KeyJson(200, None), KeyJson(500, None),
    KeyJson(401, KeyBody(Some("Unauthorized"), None, None)),
    KeyJson(401, KeyBody(None, None, None)),
    KeyJson(403, KeyBody(None, Some("sk_live_1"), None)),
    KeyJson(200, KeyBody(Some("quota exceeded"), Some("sk_live_1"), None)),
    KeyJson(200, KeyBody(Some(""), Some("sk_live_1"), None)) }
  \cup { KeyJson(st, KeyBody(None, a, k)) :
           st \in { 200, 201 },
           a \in { None, Some(""), Some("sk_live_1") },
           k \in { None, Some("sk_live_2") } }

\* createApiKey(apiBaseUrl, sessionToken, userHash) is called with the
\* session of a flow that succeeded: the request is sent
ApiKeyInvoke(f) ==
  /\ akPc = "idle"
  /\ pc[f] = "done" /\ result[f][1].ok
  /\ akPc' = "pending"
  /\ akSession' = Some([ sessionToken |-> result[f][1].sessionToken,
                         userHash |-> result[f][1].userHash ])
  /\ UNCHANGED << akRes, akResult >>
  /\ UNCHANGED << flowVars, codecVars, convVars, uiVars, settingsVars,
                  syncVars, panelVars, queryVars >>

\* the issuance response arrives: createApiKey ends
ApiKeyReturns(res) ==
  /\ akPc = "pending"
  /\ akPc' = "done"
  /\ akRes' = res
  /\ akResult' =
       IF res.transport = "networkError" THEN Some(KeyRejected("TypeError"))
       ELSE IF res.transport = "badJson" THEN Some(KeyRejected("SyntaxError"))
       ELSE Some(ApiKeyResult(res.status, res.body))
  /\ UNCHANGED akSession
  /\ UNCHANGED << flowVars, codecVars, convVars, uiVars, settingsVars,
                  syncVars, panelVars, queryVars >>

\* concurrent invocations, a compact choice of answers
Next ==
  \E f \in Flows :
    \/ \E k \in Kinds : Invoke(f, k)
    \/ \E res \in StartResponsesCompact(kind[f], FreshChallenge(issued + 1)) :
         StartReturns(f, res)
    \/ \E o \in CeremonyOutcomesCompact(kind[f], f) : CeremonyReturns(f, o)
    \/ \E res \in FinishResponsesCompact : FinishReturns(f, res)

Spec == Init /\ [][Next]_vars

\* the pending request or authenticator invocation of flow f returns; a flow
\* waits for one of the three at a time
Responds(f) ==
  \/ \E res \in StartResponsesCompact(kind[f], FreshChallenge(issued + 1)) :
       StartReturns(f, res)
  \/ \E o \in CeremonyOutcomesCompact(kind[f], f) : CeremonyReturns(f, o)
  \/ \E res \in FinishResponsesCompact : FinishReturns(f, res)

\* every start request, authenticator invocation and finish request
\* eventually returns
Responsive == \A f \in Flows : WF_vars(Responds(f))

SpecResponsive == Spec /\ Responsive

\* one invocation, every answer of the model
NextFlow ==
  \/ \E k \in Kinds : Invoke(1, k)
  \/ \E res \in StartResponses(kind[1], FreshChallenge(issued + 1)) :
       StartReturns(1, res)
  \/ \E o \in CeremonyOutcomes(kind[1], 1) : CeremonyReturns(1, o)
  \/ \E res \in FinishResponses : FinishReturns(1, res)
  \/ ApiKeyInvoke(1)
  \/ \E res \in KeyResponses : ApiKeyReturns(res)

SpecFlow == Init /\ [][NextFlow]_vars

\* the pending request or authenticator invocation of the one invocation
\* returns, with any answer of the model
RespondsFlow ==
  \/ \E res \in StartResponses(kind[1], FreshChallenge(issued + 1)) :
       StartReturns(1, res)
  \/ \E o \in CeremonyOutcomes(kind[1], 1) : CeremonyReturns(1, o)
  \/ \E res \in FinishResponses : FinishReturns(1, res)

\* one invocation whose requests and authenticator invocation eventually
\* return
SpecFlowResponsive == SpecFlow /\ WF_vars(RespondsFlow)

(***************************************************************************)
(* The codec on its own: base64UrlEncode and base64UrlDecode applied to    *)
(* byte buffers and strings of bounded length                              *)
(***************************************************************************)
MaxBytes == 3
MaxText == 4
MaxUrlText == 5

\* byte values whose 6-bit groups give the first, the last and the two
\* translated characters of the alphabet
ByteValues == { 0, 1, 127, 128, 251, 255 }

\* every buffer of one byte, and the buffers over ByteValues
Buffers == SeqsUpTo(0..255, 1) \cup SeqsUpTo(ByteValues, MaxBytes)

\* characters of both alphabets, padding, whitespace and a character of
\* neither alphabet
TextChars == { "A", "-", "_", "+", "/", "=", " ", "*" }

UrlChars == { "A", "8", "-", "_" }

\* the strings over TextChars, and longer ones in the URL alphabet only
Texts == SeqsUpTo(TextChars, MaxText) \cup SeqsUpTo(UrlChars, MaxUrlText)

InitCodec ==
  /\ InitFlows
  /\ TranslatorsOff
  /\ AppOff
  /\ SettingsOff
  /\ SyncOff
  /\ SyncPanelOff
  /\ QueryPanelOff
  /\ codecPc = "ready"
  /\ \/ buffer \in Buffers /\ str = <<>>
     \/ buffer = <<>> /\ str \in Texts
  /\ encoded = None
  /\ decodedBack = None
  /\ decodedPadded = None
  /\ decoded = None

\* base64UrlEncode(buffer) is called
Encode ==
  /\ codecPc = "ready"
  /\ codecPc' = "encoded"
  /\ encoded' = Some(base64UrlEncode(buffer))
  /\ UNCHANGED << buffer, str, decodedBack, decodedPadded, decoded >>
  /\ UNCHANGED << flowVars, akVars, convVars, uiVars, settingsVars, syncVars,
                  panelVars, queryVars >>

\* base64UrlDecode is called with what base64UrlEncode(buffer) returned
DecodeEncoded ==
  /\ codecPc = "encoded"
  /\ codecPc' = "decodedBack"
  /\ decodedBack' = Some(base64UrlDecode(encoded))
  /\ UNCHANGED << buffer, str, encoded, decodedPadded, decoded >>
  /\ UNCHANGED << flowVars, akVars, convVars, uiVars, settingsVars, syncVars,
                  panelVars, queryVars >>

\* base64UrlDecode is called with the encoding of buffer that keeps its "="
\* padding
DecodePadded ==
  /\ codecPc = "decodedBack"
  /\ codecPc' = "decodedPadded"
  /\ decodedPadded' = Some(base64UrlDecode(Some(base64UrlEncodePadded(buffer))))
  /\ UNCHANGED << buffer, str, encoded, decodedBack, decoded >>
  /\ UNCHANGED << flowVars, akVars, convVars, uiVars, settingsVars, syncVars,
                  panelVars, queryVars >>

\* base64UrlDecode(str) is called
Decode ==
  /\ codecPc = "ready"
  /\ codecPc' = "decoded"
  /\ decoded' = Some(base64UrlDecode(Some(str)))
  /\ UNCHANGED << buffer, str, encoded, decodedBack, decodedPadded >>
  /\ UNCHANGED << flowVars, akVars, convVars, uiVars, settingsVars, syncVars,
                  panelVars, queryVars >>

NextCodec == Encode \/ DecodeEncoded \/ DecodePadded \/ Decode

SpecCodec == InitCodec /\ [][NextCodec]_vars

(***************************************************************************)
(* The translators on their own: convertCreationOptions and                *)
(* convertRequestOptions applied to the options a server may send          *)
(***************************************************************************)
\* the longest excludeCredentials / allowCredentials list
MaxCreds == 2

\* credential descriptors as the server sends them: two that decode, with
\* and without transports, and one whose id does not decode
CredEntries ==
  { [ id |-> Some(i), type |-> Some("public-key"), transports |-> t ] :
      i \in { << "A", "Q" >>, << "-", "_", "8" >> },
      t \in { None, Some("internal") } }
  \cup { [ id |-> Some(BadLength), type |-> Some("public-key"),
           transports |-> None ] }

\* an absent list, and every list of at most MaxCreds descriptors
CredLists == { None } \cup { Some(l) : l \in SeqsUpTo(CredEntries, MaxCreds) }

\* a timeout: absent, 0, or a positive number of milliseconds
Timeouts == { None, Some(0), Some(30000) }

\* authenticatorSelection: absent, or with any of its three fields present
Selections ==
  { None } \cup
  { Some([ authenticatorAttachment |-> a, residentKey |-> r,
           userVerification |-> u ]) :
      a \in { None, Some("cross-platform") },
      r \in { None, Some("required") },
      u \in { None, Some("discouraged") } }

TheChallenge == << "A", "Q", "I", "D" >>

\* the publicKey descriptors given to convertCreationOptions
CreationPks ==
  { [ GoodRegisterPk(TheChallenge) EXCEPT
        !.timeout = t, !.attestation = a, !.authenticatorSelection = sel,
        !.excludeCredentials = l ] :
      t \in Timeouts, a \in { None, Some(""), Some("direct") },
      sel \in Selections, l \in CredLists }
  \cup MalformedPks("register", TheChallenge)
  \cup IncompletePks("register", TheChallenge)
  \cup { [ GoodRegisterPk(TheChallenge) EXCEPT
            !.user[1].displayName = Some("User Name") ] }

\* the publicKey descriptors given to convertRequestOptions
RequestPks ==
  { [ GoodLoginPk(TheChallenge) EXCEPT
        !.timeout = t, !.userVerification = u, !.allowCredentials = l ] :
      t \in Timeouts, u \in { None, Some(""), Some("required") },
      l \in CredLists }
  \cup MalformedPks("login", TheChallenge)
  \cup IncompletePks("login", TheChallenge)

InitTranslators ==
  /\ InitFlows
  /\ CodecOff
  /\ AppOff
  /\ SettingsOff
  /\ SyncOff
  /\ SyncPanelOff
  /\ QueryPanelOff
  /\ convPc = "ready"
  /\ \/ convKind = "register"
        /\ serverOptions \in { [ publicKey |-> Some(pk) ] : pk \in CreationPks }
     \/ convKind = "login"
        /\ serverOptions \in { [ publicKey |-> Some(pk) ] : pk \in RequestPks }
     \/ convKind \in Kinds /\ serverOptions = [ publicKey |-> None ]
  /\ translated = None
  /\ translatedAgain = None

\* convertCreationOptions(serverOptions) is called
ConvertCreation ==
  /\ convPc = "ready" /\ convKind = "register"
  /\ convPc' = "converted"
  /\ translated' = Some(convertCreationOptions(serverOptions))
  /\ UNCHANGED << convKind, serverOptions, translatedAgain >>
  /\ UNCHANGED << flowVars, akVars, codecVars, uiVars, settingsVars, syncVars,
                  panelVars, queryVars >>

\* convertRequestOptions(serverOptions) is called
ConvertRequest ==
  /\ convPc = "ready" /\ convKind = "login"
  /\ convPc' = "converted"
  /\ translated' = Some(convertRequestOptions(serverOptions))
  /\ UNCHANGED << convKind, serverOptions, translatedAgain >>
  /\ UNCHANGED << flowVars, akVars, codecVars, uiVars, settingsVars, syncVars,
                  panelVars, queryVars >>

\* the same translator is called a second time with the same options
ConvertAgain ==
  /\ convPc = "converted"
  /\ convPc' = "again"
  /\ translatedAgain' = Some(Translate(convKind, serverOptions))
  /\ UNCHANGED << convKind, serverOptions, translated >>
  /\ UNCHANGED << flowVars, akVars, codecVars, uiVars, settingsVars, syncVars,
                  panelVars, queryVars >>

NextTranslators == ConvertCreation \/ ConvertRequest \/ ConvertAgain

SpecTranslators == InitTranslators /\ [][NextTranslators]_vars

(***************************************************************************)
(* The application shell (App.jsx): the config state, the two deep-link    *)
(* subscriptions and handleAuthCallback                                    *)
(***************************************************************************)
\* external sign-ins that complete while the application runs
MaxSignIns == 2

SignedInMessage == "Signed in and API key saved."

\* a config loaded from the backend by loadState: a user signed in earlier
\* against a custom environment
CustomConfig ==
  [ api_base_url |-> "https://api.example.test", api_key |-> "sk_old",
    watched_folder |-> Some("/docs"), auto_ingest |-> FALSE,
    environment |-> "Custom",
    session_token |-> Some("old-session"), user_hash |-> Some("old-hash") ]

\* the auth data the n-th sign-in carries: complete, without session_token,
\* without api_key, and with an empty user_hash
AuthData(n) ==
  LET full == [ link |-> n, api_key |-> Some("sk_live_" \o ToString(n)),
                user_hash |-> Some("hash-" \o ToString(n)),
                session_token |-> Some("session-" \o ToString(n)) ]
  IN { full,
       [ full EXCEPT !.session_token = None ],
       [ full EXCEPT !.api_key = None ],
       [ full EXCEPT !.user_hash = Some("") ] }

\* the URL exemem://auth?api_key=...&user_hash=...&session_token=...
AuthUrl(data) == [ host |-> "auth", params |-> data ]

\* a deep link to the application that is not an auth callback, opened
\* together with the auth URL
OtherUrl ==
  [ host |-> "open",
    params |-> [ link |-> 0, api_key |-> Some("sk_other"),
                 user_hash |-> Some("hash-other"), session_token |-> None ] ]

\* !!(config.session_token && config.user_hash && config.api_key)
isAuthenticated(cfg) ==
  TruthyStr(cfg.session_token) /\ TruthyStr(cfg.user_hash) /\ cfg.api_key # ""

\* handleAuthCallback accepting a callback that has an api_key, whatever
\* its user_hash
AcceptsWithApiKey(data) == TruthyStr(data.api_key)

\* !(!data.api_key || !data.user_hash)
Accepts(data) == TruthyStr(data.api_key) /\ TruthyStr(data.user_hash)

\* { ...prev, api_key, user_hash, session_token: data.session_token || null }
NewConfig(prev, data) ==
  [ prev EXCEPT !.api_key = data.api_key[1],
                !.user_hash = data.user_hash,
                !.session_token = IF TruthyStr(data.session_token)
                                  THEN data.session_token ELSE None ]

\* the application state one call of handleAuthCallback reads and writes
AppState ==
  [ config |-> config, success |-> success, successTimers |-> successTimers,
    saveCalls |-> saveCalls, pendingSaves |-> pendingSaves, applied |-> applied ]

\* handleAuthCallback(data), from the state st
handleAuthCallback(st, data) ==
  IF ~Accepts(data) THEN st
  ELSE
    LET newConfig == NewConfig(st.config, data) IN
      [ st EXCEPT !.config = newConfig,
                  !.saveCalls = @ + 1,
                  !.pendingSaves = Append(@, newConfig),
                  !.success = Some(SignedInMessage),
                  !.successTimers = @ + 1,
                  !.applied[data.link] = @ + 1 ]

RECURSIVE HandleUrls(_, _)
\* for (const urlStr of urls) { if (url.host === "auth") handleAuthCallback(...) }
HandleUrls(st, urls) ==
  IF Len(urls) = 0 THEN st
  ELSE HandleUrls(IF urls[1].host = "auth"
                  THEN handleAuthCallback(st, urls[1].params) ELSE st,
                  Tail(urls))

\* the variables take the values of the application state st
Becomes(st) ==
  /\ config' = st.config
  /\ success' = st.success
  /\ successTimers' = st.successTimers
  /\ saveCalls' = st.saveCalls
  /\ pendingSaves' = st.pendingSaves
  /\ applied' = st.applied

\* the application is mounted and loadState has set the config
InitApp ==
  /\ InitFlows
  /\ CodecOff
  /\ TranslatorsOff
  /\ SettingsOff
  /\ SyncOff
  /\ SyncPanelOff
  /\ QueryPanelOff
  /\ config \in { DefaultConfig, CustomConfig }
  /\ persisted = config
  /\ success = None
  /\ appError = None
  /\ successTimers = 0
  /\ saveCalls = 0
  /\ pendingSaves = <<>>
  /\ signIns = 0
  /\ eventQueue = <<>>
  /\ urlQueue = <<>>
  /\ applied = [ n \in 1..MaxSignIns |-> 0 ]

\* an external sign-in completes and its deep link reaches the application:
\* the backend emits "deep-link-auth", the deep-link plugin calls the
\* onOpenUrl callback, or both
SignInCompletes(data, byEvent, byUrl, urls) ==
  /\ signIns < MaxSignIns
  /\ data.link = signIns + 1
  /\ byEvent \/ byUrl
  /\ signIns' = signIns + 1
  /\ eventQueue' = IF byEvent THEN Append(eventQueue, data) ELSE eventQueue
  /\ urlQueue' = IF byUrl THEN Append(urlQueue, urls) ELSE urlQueue
  /\ UNCHANGED << config, success, appError, successTimers, saveCalls,
                  applied, pendingSaves, persisted >>
  /\ UNCHANGED << flowVars, akVars, codecVars, convVars, settingsVars,
                  syncVars, panelVars, queryVars >>

\* listen("deep-link-auth", (event) => handleAuthCallback(event.payload))
OnDeepLinkAuth ==
  /\ Len(eventQueue) > 0
  /\ eventQueue' = Tail(eventQueue)
  /\ Becomes(handleAuthCallback(AppState, Head(eventQueue)))
  /\ UNCHANGED << appError, signIns, urlQueue, persisted >>
  /\ UNCHANGED << flowVars, akVars, codecVars, convVars, settingsVars,
                  syncVars, panelVars, queryVars >>

\* the callback given to onOpenUrl
OnOpenUrl ==
  /\ Len(urlQueue) > 0
  /\ urlQueue' = Tail(urlQueue)
  /\ Becomes(HandleUrls(AppState, Head(urlQueue)))
  /\ UNCHANGED << appError, signIns, eventQueue, persisted >>
  /\ UNCHANGED << flowVars, akVars, codecVars, convVars, settingsVars,
                  syncVars, panelVars, queryVars >>

\* setTimeout(() => setSuccess(null), 3000) fires
SuccessTimerFires ==
  /\ successTimers > 0
  /\ successTimers' = successTimers - 1
  /\ success' = None
  /\ UNCHANGED << config, appError, saveCalls, signIns, eventQueue, urlQueue,
                  applied, pendingSaves, persisted >>
  /\ UNCHANGED << flowVars, akVars, codecVars, convVars, settingsVars,
                  syncVars, panelVars, queryVars >>

\* the i-th pending invoke("save_config", { newConfig }) settles: the
\* backend saved newConfig, or the promise rejects and .catch sets the error
SaveConfigSettles(i, saved) ==
  /\ i \in 1..Len(pendingSaves)
  /\ pendingSaves' = SubSeq(pendingSaves, 1, i - 1)
                       \o SubSeq(pendingSaves, i + 1, Len(pendingSaves))
  /\ persisted' = IF saved THEN pendingSaves[i] ELSE persisted
  /\ appError' = IF saved THEN appError ELSE Some("save_config failed")
  /\ UNCHANGED << config, success, successTimers, saveCalls, signIns,
                  eventQueue, urlQueue, applied >>
  /\ UNCHANGED << flowVars, akVars, codecVars, convVars, settingsVars,
                  syncVars, panelVars, queryVars >>

NextApp ==
  \/ \E data \in AuthData(signIns + 1), byEvent \in BOOLEAN, byUrl \in BOOLEAN :
       SignInCompletes(data, byEvent, byUrl, << OtherUrl, AuthUrl(data) >>)
  \/ OnDeepLinkAuth
  \/ OnOpenUrl
  \/ SuccessTimerFires
  \/ \E i \in 1..Len(pendingSaves), saved \in BOOLEAN : SaveConfigSettles(i, saved)

SpecApp == InitApp /\ [][NextApp]_vars

(***************************************************************************)
(* Save Settings, Sign Out and Browse (App.jsx): saveConfig and its        *)
(* callers, next to a sign-in arriving by "deep-link-auth"                 *)
(***************************************************************************)
\* what the user does while the application runs: clicks on Save Settings
\* and Sign Out, and sign-ins completed in the browser
MaxClicks == 3

SignedOutMessage == "Signed out."
SavedMessage == "Configuration saved."

\* the folder the user picks in the dialog of handleSelectFolder
PickedFolder == "/picked"

\* a signed-out config that starts from the defaults instead of the
\* current config
SignedOutDefaults(cfg) ==
  [ DefaultConfig EXCEPT !.api_key = "", !.session_token = None,
                         !.user_hash = None ]

\* { ...config, api_key: "", session_token: null, user_hash: null }
SignedOutConfig(cfg) ==
  [ cfg EXCEPT !.api_key = "", !.session_token = None, !.user_hash = None ]

\* a call saveConfig(newConfig) made by op ("signOut" or "save") when the
\* config state was from
SaveOp(op, newConfig, from) ==
  [ op |-> op, newConfig |-> newConfig, from |-> from ]

\* the application is mounted, loadState has set the config, nothing has
\* been clicked
InitSettings ==
  /\ InitFlows
  /\ CodecOff
  /\ TranslatorsOff
  /\ SettingsOff
  /\ SyncOff
  /\ SyncPanelOff
  /\ QueryPanelOff
  /\ config \in { DefaultConfig, CustomConfig }
  /\ persisted = config
  /\ success = None
  /\ appError = None
  /\ successTimers = 0
  /\ saveCalls = 0
  /\ pendingSaves = <<>>
  /\ signIns = 0
  /\ eventQueue = <<>>
  /\ urlQueue = <<>>
  /\ applied = [ n \in 1..MaxSignIns |-> 0 ]

\* the user completes a sign-in in the browser and the backend emits
\* "deep-link-auth" for its deep link
SignInReturns(data) ==
  /\ clicks < MaxClicks
  /\ signIns < MaxSignIns
  /\ data.link = signIns + 1
  /\ clicks' = clicks + 1
  /\ signIns' = signIns + 1
  /\ eventQueue' = Append(eventQueue, data)
  /\ UNCHANGED << config, success, appError, successTimers, saveCalls,
                  urlQueue, applied, pendingSaves, persisted, saving, saveOps >>
  /\ UNCHANGED << flowVars, akVars, codecVars, convVars, syncVars, panelVars,
                  queryVars >>

\* handleSignOut up to its await: the Sign Out button is rendered only when
\* isAuthenticated
HandleSignOut ==
  /\ clicks < MaxClicks
  /\ isAuthenticated(config)
  /\ clicks' = clicks + 1
  /\ saveOps' = Append(saveOps, SaveOp("signOut", SignedOutConfig(config), config))
  /\ saveCalls' = saveCalls + 1
  /\ UNCHANGED << config, success, appError, successTimers, signIns,
                  eventQueue, urlQueue, applied, pendingSaves, persisted,
                  saving >>
  /\ UNCHANGED << flowVars, akVars, codecVars, convVars, syncVars, panelVars,
                  queryVars >>

\* handleSave up to its await: the Save Settings button is disabled while
\* saving
HandleSave ==
  /\ clicks < MaxClicks
  /\ ~saving
  /\ clicks' = clicks + 1
  /\ saving' = TRUE
  /\ appError' = None
  /\ success' = None
  /\ saveOps' = Append(saveOps, SaveOp("save", config, config))
  /\ saveCalls' = saveCalls + 1
  /\ UNCHANGED << config, successTimers, signIns, eventQueue, urlQueue,
                  applied, pendingSaves, persisted >>
  /\ UNCHANGED << flowVars, akVars, codecVars, convVars, syncVars, panelVars,
                  queryVars >>

\* the invoke("save_config") of the i-th saveConfig call settles, and
\* saveConfig and its caller run to their end: setConfig(newConfig) and the
\* success message when the backend saved; the catch and finally of
\* handleSave, or the rejection of handleSignOut, when it did not
SaveConfigReturns(i, saved) ==
  /\ i \in 1..Len(saveOps)
  /\ LET call == saveOps[i] IN
       /\ saveOps' = SubSeq(saveOps, 1, i - 1)
                       \o SubSeq(saveOps, i + 1, Len(saveOps))
       /\ persisted' = IF saved THEN call.newConfig ELSE persisted
       /\ config' = IF saved THEN call.newConfig ELSE config
       /\ success' = IF ~saved THEN success
                     ELSE IF call.op = "signOut" THEN Some(SignedOutMessage)
                     ELSE Some(SavedMessage)
       /\ successTimers' = IF saved THEN successTimers + 1 ELSE successTimers
       /\ appError' = IF ~saved /\ call.op = "save"
                      THEN Some("save_config failed") ELSE appError
       /\ saving' = IF call.op = "save" THEN FALSE ELSE saving
  /\ UNCHANGED << saveCalls, signIns, eventQueue, urlQueue, applied,
                  pendingSaves, clicks >>
  /\ UNCHANGED << flowVars, akVars, codecVars, convVars, syncVars, panelVars,
                  queryVars >>

\* handleSelectFolder: the dialog returns a folder
HandleSelectFolder ==
  /\ appError' = None
  /\ config' = [ config EXCEPT !.watched_folder = Some(PickedFolder) ]
  /\ UNCHANGED << success, successTimers, saveCalls, signIns, eventQueue,
                  urlQueue, applied, pendingSaves, persisted >>
  /\ UNCHANGED << flowVars, akVars, codecVars, convVars, settingsVars,
                  syncVars, panelVars, queryVars >>

NextSettings ==
  \/ \E data \in AuthData(signIns + 1) : SignInReturns(data)
  \/ OnDeepLinkAuth
  \/ \E i \in 1..Len(pendingSaves), saved \in BOOLEAN : SaveConfigSettles(i, saved)
  \/ HandleSignOut
  \/ HandleSave
  \/ \E i \in 1..Len(saveOps), saved \in BOOLEAN : SaveConfigReturns(i, saved)
  \/ HandleSelectFolder
  \/ SuccessTimerFires

SpecSettings == InitSettings /\ [][NextSettings]_vars

(***************************************************************************)
(* The sync status of App.jsx: the "sync-activity" and                     *)
(* "sync-status-changed" subscriptions                                     *)
(***************************************************************************)
\* .slice(0, 50)
RecentActivityCap == 50

\* "sync-activity" events emitted while the application runs
MaxActivityEvents == 52

\* the status loadState receives when the backend has cap entries to show,
\* the newest first
LoadedStatus(watching, file_count, entries) ==
  [ watching |-> watching, folder |-> Some("/docs"), file_count |-> file_count,
    recent_activity |->
      [ k \in 1..entries |->
          [ filename |-> "old-" \o ToString(entries - k + 1),
            status |-> "uploaded", error |-> None, timestamp |-> "0" ] ] ]

\* what get_sync_status may answer at start-up: nothing synced yet, two
\* files synced, a full list
LoadedStatuses ==
  { DefaultSyncStatus,
    LoadedStatus(TRUE, 2, 2),
    LoadedStatus(FALSE, 120, RecentActivityCap) }

\* the payload of the n-th "sync-activity" event: uploads that succeed and
\* uploads that fail
ActivityPayload(n) ==
  [ filename |-> "file-" \o ToString(n),
    status |-> IF n % 2 = 1 THEN "uploaded" ELSE "failed",
    error |-> IF n % 2 = 1 THEN None ELSE Some("upload failed") ]

\* array.slice(0, end)
SliceFromStart(array, end) ==
  SubSeq(array, 1, IF Len(array) < end THEN Len(array) ELSE end)

\* the updater of the "sync-activity" listener, without the slice
UncappedActivity(prev, payload, seconds) ==
  [ prev EXCEPT !.recent_activity =
      << [ filename |-> payload.filename, status |-> payload.status,
           error |-> payload.error, timestamp |-> ToString(seconds) ] >> \o @ ]

\* the updater of the "sync-activity" listener; seconds is
\* Math.floor(Date.now() / 1000)
AddActivity(prev, payload, seconds) ==
  LET entry == [ filename |-> payload.filename, status |-> payload.status,
                 error |-> payload.error, timestamp |-> ToString(seconds) ]
      updated == SliceFromStart(<< entry >> \o prev.recent_activity,
                                RecentActivityCap)
  IN [ prev EXCEPT !.recent_activity = updated ]

\* the application is mounted and loadState has set the sync status
InitSync ==
  /\ InitFlows
  /\ CodecOff
  /\ TranslatorsOff
  /\ AppOff
  /\ SettingsOff
  /\ SyncPanelOff
  /\ QueryPanelOff
  /\ loadedStatus \in LoadedStatuses
  /\ syncStatus = loadedStatus
  /\ activityEvents = 0

\* listen("sync-activity", ...): the backend emits the next event, one
\* second after the one before, and the listener handles it
OnSyncActivity ==
  /\ activityEvents < MaxActivityEvents
  /\ activityEvents' = activityEvents + 1
  /\ syncStatus' = AddActivity(syncStatus, ActivityPayload(activityEvents + 1),
                               activityEvents + 1)
  /\ UNCHANGED loadedStatus
  /\ UNCHANGED << flowVars, akVars, codecVars, convVars, uiVars, settingsVars,
                  panelVars, queryVars >>

\* listen("sync-status-changed", ...)
OnSyncStatusChanged(watching) ==
  /\ syncStatus' = [ syncStatus EXCEPT !.watching = watching ]
  /\ UNCHANGED << loadedStatus, activityEvents >>
  /\ UNCHANGED << flowVars, akVars, codecVars, convVars, uiVars, settingsVars,
                  panelVars, queryVars >>

NextSync ==
  \/ OnSyncActivity
  \/ \E watching \in BOOLEAN : OnSyncStatusChanged(watching)

SpecSync == InitSync /\ [][NextSync]_vars

(***************************************************************************)
(* SyncPanel.jsx: the sub-phase of the panel, its handlers and the         *)
(* backend commands they await                                             *)
(***************************************************************************)
\* clicks on Scan & Watch, Approve & Ingest and Stop / Resume while the
\* panel is mounted
MaxPanelClicks == 3

\* the files scan_folder may recommend
ScanResults == { <<>>, << "/docs/a.txt" >> }

\* what get_sync_status answers
BackendStatus ==
  [ watching |-> backendWatching, folder |-> Some("/docs"), file_count |-> 2,
    recent_activity |-> <<>> ]

\* a handler invocation suspended at await invoke(at)
Task(handler, at) == [ handler |-> handler, at |-> at ]

\* String(err) of a rejected invoke(command)
CommandError(command) == command \o " failed"

WithoutTask(i) == SubSeq(tasks, 1, i - 1) \o SubSeq(tasks, i + 1, Len(tasks))

\* the panel is mounted with the status loadState has set; the first effect
\* (lines 26-30) has shown the watching phase when the backend is watching
InitSyncPanel ==
  /\ InitFlows
  /\ CodecOff
  /\ TranslatorsOff
  /\ SettingsOff
  /\ QueryPanelOff
  /\ config = CustomConfig
  /\ persisted = config
  /\ success = None
  /\ appError = None
  /\ successTimers = 0
  /\ saveCalls = 0
  /\ pendingSaves = <<>>
  /\ signIns = 0
  /\ eventQueue = <<>>
  /\ urlQueue = <<>>
  /\ applied = <<>>
  /\ backendWatching \in BOOLEAN
  /\ backendIngesting = FALSE
  /\ loadedStatus = BackendStatus
  /\ syncStatus = loadedStatus
  /\ activityEvents = 0
  /\ subPhase = IF syncStatus.watching THEN "watching" ELSE "idle"
  /\ scanResult = None
  /\ selectedFiles = {}
  /\ panelError = None
  /\ tasks = <<>>
  /\ settled = None
  /\ panelClicks = 0

\* what no SyncPanel step changes
PanelFrame ==
  /\ UNCHANGED << config, success, appError, successTimers, pendingSaves,
                  signIns, eventQueue, urlQueue, applied >>
  /\ UNCHANGED << loadedStatus, activityEvents >>
  /\ UNCHANGED << flowVars, akVars, codecVars, convVars, settingsVars,
                  queryVars >>

\* handleScanAndWatch up to await saveConfig(config): the button is shown
\* in the idle phase and disabled without a watched folder
HandleScanAndWatch ==
  /\ panelClicks < MaxPanelClicks
  /\ subPhase = "idle"
  /\ TruthyStr(config.watched_folder)
  /\ panelClicks' = panelClicks + 1
  /\ panelError' = None
  /\ tasks' = Append(tasks, Task("handleScanAndWatch", "save_config"))
  /\ saveCalls' = saveCalls + 1
  /\ UNCHANGED << subPhase, scanResult, selectedFiles, settled, syncStatus,
                  persisted, backendWatching, backendIngesting >>
  /\ PanelFrame

\* a failure of Scan & Watch that leaves the panel in the phase it is in
ScanFailureKeepsPhase(phase) == phase

\* setSubPhase("idle") of the catch of handleScanAndWatch
ScanFailurePhase(phase) == "idle"

\* invoke("save_config") of handleScanAndWatch settles: saveConfig sets the
\* config it was given and the scan starts, or the catch runs
ScanSaveReturns(i, ok) ==
  /\ i \in 1..Len(tasks)
  /\ tasks[i] = Task("handleScanAndWatch", "save_config")
  /\ settled' = Some([ handler |-> tasks[i].handler, at |-> tasks[i].at, ok |-> ok ])
  /\ IF ok
     THEN /\ persisted' = config
          /\ subPhase' = "scanning"
          /\ tasks' = [ tasks EXCEPT ![i] = Task("handleScanAndWatch", "scan_folder") ]
          /\ UNCHANGED panelError
     ELSE /\ panelError' = Some(CommandError("save_config"))
          /\ subPhase' = ScanFailurePhase(subPhase)
          /\ tasks' = WithoutTask(i)
          /\ UNCHANGED persisted
  /\ UNCHANGED << scanResult, selectedFiles, panelClicks, syncStatus, saveCalls,
                  backendWatching, backendIngesting >>
  /\ PanelFrame

\* invoke("scan_folder") settles
ScanFolderReturns(i, ok, scanned) ==
  /\ i \in 1..Len(tasks)
  /\ tasks[i] = Task("handleScanAndWatch", "scan_folder")
  /\ settled' = Some([ handler |-> tasks[i].handler, at |-> tasks[i].at, ok |-> ok ])
  /\ tasks' = WithoutTask(i)
  /\ IF ok
     THEN /\ scanResult' = Some(scanned)
          /\ selectedFiles' = { scanned[k] : k \in 1..Len(scanned) }
          /\ subPhase' = "review"
          /\ UNCHANGED panelError
     ELSE /\ panelError' = Some(CommandError("scan_folder"))
          /\ subPhase' = ScanFailurePhase(subPhase)
          /\ UNCHANGED << scanResult, selectedFiles >>
  /\ UNCHANGED << panelClicks, syncStatus, saveCalls, persisted,
                  backendWatching, backendIngesting >>
  /\ PanelFrame

\* the review phase is rendered
ReviewShown == subPhase = "review" /\ IsSome(scanResult)

\* toggleFileSelection(path), on a file of the scan result
ToggleFileSelection(path) ==
  /\ ReviewShown
  /\ path \in { scanResult[1][k] : k \in 1..Len(scanResult[1]) }
  /\ selectedFiles' = IF path \in selectedFiles
                      THEN selectedFiles \ { path }
                      ELSE selectedFiles \cup { path }
  /\ UNCHANGED << subPhase, scanResult, panelError, tasks, settled,
                  panelClicks, syncStatus, saveCalls, persisted,
                  backendWatching, backendIngesting >>
  /\ PanelFrame

\* handleApproveAndIngest up to its await: with nothing selected the panel
\* shows the watching phase and handleStartWatching is called
HandleApproveAndIngest ==
  /\ panelClicks < MaxPanelClicks
  /\ ReviewShown
  /\ panelClicks' = panelClicks + 1
  /\ panelError' = None
  /\ IF selectedFiles = {}
     THEN /\ subPhase' = "watching"
          /\ tasks' = Append(tasks, Task("handleApproveAndIngest", "start_watching"))
     ELSE /\ subPhase' = "ingesting"
          /\ tasks' = Append(tasks, Task("handleApproveAndIngest", "approve_and_ingest"))
  /\ UNCHANGED << scanResult, selectedFiles, settled, syncStatus, saveCalls,
                  persisted, backendWatching, backendIngesting >>
  /\ PanelFrame

\* invoke("approve_and_ingest") settles: the backend has started the
\* ingestion, or the catch runs
ApproveAndIngestReturns(i, ok) ==
  /\ i \in 1..Len(tasks)
  /\ tasks[i].at = "approve_and_ingest"
  /\ settled' = Some([ handler |-> tasks[i].handler, at |-> tasks[i].at, ok |-> ok ])
  /\ tasks' = WithoutTask(i)
  /\ IF ok
     THEN /\ backendIngesting' = TRUE
          /\ UNCHANGED << panelError, subPhase >>
     ELSE /\ panelError' = Some(CommandError("approve_and_ingest"))
          /\ subPhase' = "review"
          /\ UNCHANGED backendIngesting
  /\ UNCHANGED << scanResult, selectedFiles, panelClicks, syncStatus,
                  saveCalls, persisted, backendWatching >>
  /\ PanelFrame

\* listen("ingestion-complete", ...): the backend has finished an ingestion
OnIngestionComplete ==
  /\ backendIngesting
  /\ backendIngesting' = FALSE
  /\ subPhase' = "watching"
  /\ tasks' = Append(tasks, Task("handleStartWatching", "start_watching"))
  /\ UNCHANGED << scanResult, selectedFiles, panelError, settled, panelClicks,
                  syncStatus, saveCalls, persisted, backendWatching >>
  /\ PanelFrame

\* toggleWatching up to its first await: the Stop / Resume button is shown
\* by the last branch of the render
ToggleWatching ==
  /\ panelClicks < MaxPanelClicks
  /\ subPhase \notin { "idle", "scanning", "ingesting" }
  /\ ~ReviewShown
  /\ panelClicks' = panelClicks + 1
  /\ panelError' = None
  /\ tasks' = Append(tasks, Task("toggleWatching",
                                 IF syncStatus.watching THEN "stop_watching"
                                 ELSE "start_watching"))
  /\ UNCHANGED << subPhase, scanResult, selectedFiles, settled, syncStatus,
                  saveCalls, persisted, backendWatching, backendIngesting >>
  /\ PanelFrame

\* invoke("start_watching") settles, in handleStartWatching (which logs a
\* failure) or in toggleWatching (which shows the phase, or the error)
StartWatchingReturns(i, ok) ==
  /\ i \in 1..Len(tasks)
  /\ tasks[i].at = "start_watching"
  /\ settled' = Some([ handler |-> tasks[i].handler, at |-> tasks[i].at, ok |-> ok ])
  /\ IF ok
     THEN /\ backendWatching' = TRUE
          /\ tasks' = [ tasks EXCEPT ![i] = Task(tasks[i].handler, "get_sync_status") ]
          /\ subPhase' = IF tasks[i].handler = "toggleWatching"
                         THEN "watching" ELSE subPhase
          /\ UNCHANGED panelError
     ELSE /\ tasks' = WithoutTask(i)
          /\ panelError' = IF tasks[i].handler = "toggleWatching"
                           THEN Some(CommandError("start_watching"))
                           ELSE panelError
          /\ UNCHANGED << backendWatching, subPhase >>
  /\ UNCHANGED << scanResult, selectedFiles, panelClicks, syncStatus,
                  saveCalls, persisted, backendIngesting >>
  /\ PanelFrame

\* invoke("stop_watching") of toggleWatching settles
StopWatchingReturns(i, ok) ==
  /\ i \in 1..Len(tasks)
  /\ tasks[i].at = "stop_watching"
  /\ settled' = Some([ handler |-> tasks[i].handler, at |-> tasks[i].at, ok |-> ok ])
  /\ IF ok
     THEN /\ backendWatching' = FALSE
          /\ tasks' = [ tasks EXCEPT ![i] = Task(tasks[i].handler, "get_sync_status") ]
          /\ subPhase' = "idle"
          /\ UNCHANGED panelError
     ELSE /\ tasks' = WithoutTask(i)
          /\ panelError' = Some(CommandError("stop_watching"))
          /\ UNCHANGED << backendWatching, subPhase >>
  /\ UNCHANGED << scanResult, selectedFiles, panelClicks, syncStatus,
                  saveCalls, persisted, backendIngesting >>
  /\ PanelFrame

\* invoke("get_sync_status") settles: setSyncStatus(status), and the effect
\* of lines 26-30 when status.watching has become true
GetSyncStatusReturns(i, ok) ==
  /\ i \in 1..Len(tasks)
  /\ tasks[i].at = "get_sync_status"
  /\ settled' = Some([ handler |-> tasks[i].handler, at |-> tasks[i].at, ok |-> ok ])
  /\ tasks' = WithoutTask(i)
  /\ IF ok
     THEN /\ syncStatus' = BackendStatus
          /\ subPhase' = IF BackendStatus.watching /\ ~syncStatus.watching
                         THEN "watching" ELSE subPhase
          /\ UNCHANGED panelError
     ELSE /\ panelError' = IF tasks[i].handler = "toggleWatching"
                           THEN Some(CommandError("get_sync_status"))
                           ELSE panelError
          /\ UNCHANGED << syncStatus, subPhase >>
  /\ UNCHANGED << scanResult, selectedFiles, panelClicks, saveCalls, persisted,
                  backendWatching, backendIngesting >>
  /\ PanelFrame

NextSyncPanel ==
  \/ HandleScanAndWatch
  \/ \E i \in 1..Len(tasks), ok \in BOOLEAN : ScanSaveReturns(i, ok)
  \/ \E i \in 1..Len(tasks), ok \in BOOLEAN, scanned \in ScanResults :
       ScanFolderReturns(i, ok, scanned)
  \/ \E path \in { "/docs/a.txt" } : ToggleFileSelection(path)
  \/ HandleApproveAndIngest
  \/ \E i \in 1..Len(tasks), ok \in BOOLEAN : ApproveAndIngestReturns(i, ok)
  \/ OnIngestionComplete
  \/ ToggleWatching
  \/ \E i \in 1..Len(tasks), ok \in BOOLEAN : StartWatchingReturns(i, ok)
  \/ \E i \in 1..Len(tasks), ok \in BOOLEAN : StopWatchingReturns(i, ok)
  \/ \E i \in 1..Len(tasks), ok \in BOOLEAN : GetSyncStatusReturns(i, ok)

SpecSyncPanel == InitSyncPanel /\ [][NextSyncPanel]_vars

(***************************************************************************)
(* QueryPanel.jsx: handleSubmit, handleNewSession and the requests they    *)
(* leave outstanding                                                       *)
(***************************************************************************)
\* submits of the query form and clicks on New Session while the panel is
\* mounted
MaxQueryClicks == 4

\* the characters String.prototype.trim removes, among those typed here
TrimmedChars == { " ", "\t", "\n" }

RECURSIVE TrimStart(_)
TrimStart(s) ==
  IF Len(s) > 0 /\ s[1] \in TrimmedChars THEN TrimStart(Tail(s)) ELSE s

RECURSIVE TrimEnd(_)
TrimEnd(s) ==
  IF Len(s) > 0 /\ s[Len(s)] \in TrimmedChars
  THEN TrimEnd(SubSeq(s, 1, Len(s) - 1)) ELSE s

\* input.trim()
Trim(s) == TrimEnd(TrimStart(s))

\* what the input field may hold when the form is submitted
QueryTexts == { <<>>, << " " >>, << "q" >>, << " ", "q", "\n" >> }

\* a submit is dropped only when the input is blank
BlockedWhenBlank(text) == Trim(text) = <<>>

\* if (!trimmed || loading) return
Blocked(text) == Trim(text) = <<>> \/ queryLoading

\* a panel that starts a new query on every AI submit
AlwaysRunQuery(m, session) ==
  IF m = "search" THEN "search_index" ELSE "run_query"

\* the command handleSubmit invokes in mode m with the session id session
CommandFor(m, session) ==
  IF m = "search" THEN "search_index"
  ELSE IF TruthyStr(session) THEN "chat_followup"
  ELSE "run_query"

\* an invoke(command, args) of handleSubmit that has not settled
Request(command, session, text) ==
  [ command |-> command,
    sessionId |-> IF command = "chat_followup" THEN session ELSE None,
    text |-> text ]

\* an entry of the message list (its data field, which only the rendering
\* reads, is left out)
Message(role, content, m) == [ role |-> role, content |-> content, mode |-> m ]

\* { role: "error", content: String(err) }
ErrorMessage(command) == Message("error", << command \o " failed" >>, None)

\* the panel is mounted for a signed-in user
InitQueryPanel ==
  /\ InitFlows
  /\ CodecOff
  /\ TranslatorsOff
  /\ AppOff
  /\ SettingsOff
  /\ SyncOff
  /\ SyncPanelOff
  /\ messages = <<>>
  /\ queryLoading = FALSE
  /\ sessionId = None
  /\ mode \in { "ai", "search" }
  /\ outstanding = <<>>
  /\ answered = None
  /\ submits = 0
  /\ newSessions = 0
  /\ sessionsIssued = 0
  /\ ignoredSubmit = None

\* what no QueryPanel step changes
QueryFrame ==
  UNCHANGED << flowVars, akVars, codecVars, convVars, uiVars, settingsVars,
               syncVars, panelVars >>

\* setMode("ai") / setMode("search")
SetMode(m) ==
  /\ mode' = m
  /\ UNCHANGED << messages, queryLoading, sessionId, outstanding, answered,
                  submits, newSessions, sessionsIssued, ignoredSubmit >>
  /\ QueryFrame

\* handleSubmit up to its await, with text in the input field
HandleSubmit(text) ==
  /\ submits + newSessions < MaxQueryClicks
  /\ submits' = submits + 1
  /\ IF Blocked(text)
     THEN /\ ignoredSubmit' = Some(text)
          /\ UNCHANGED << messages, queryLoading, outstanding >>
     ELSE /\ UNCHANGED ignoredSubmit
          /\ messages' = Append(messages, Message("user", Trim(text), Some(mode)))
          /\ queryLoading' = TRUE
          /\ outstanding' =
               Append(outstanding,
                      Request(CommandFor(mode, sessionId), sessionId, Trim(text)))
  /\ UNCHANGED << sessionId, mode, answered, newSessions, sessionsIssued >>
  /\ QueryFrame

\* what every settled request does: the finally of handleSubmit
Settled(i, ok) ==
  /\ outstanding' = SubSeq(outstanding, 1, i - 1)
                      \o SubSeq(outstanding, i + 1, Len(outstanding))
  /\ answered' = Some([ command |-> outstanding[i].command, ok |-> ok ])
  /\ queryLoading' = FALSE
  /\ UNCHANGED << mode, submits, newSessions, ignoredSubmit >>
  /\ QueryFrame

\* invoke("search_index", { term }) settles with count results
SearchIndexReturns(i, ok, count) ==
  /\ i \in 1..Len(outstanding)
  /\ outstanding[i].command = "search_index"
  /\ messages' =
       Append(messages,
              IF ~ok THEN ErrorMessage("search_index")
              ELSE Message("assistant",
                           IF count > 0
                           THEN << "Found ", ToString(count), " results for \"" >>
                                  \o outstanding[i].text \o << "\"" >>
                           ELSE << "No results found for \"" >>
                                  \o outstanding[i].text \o << "\"" >>,
                           Some("search")))
  /\ UNCHANGED << sessionId, sessionsIssued >>
  /\ Settled(i, ok)

\* invoke("chat_followup", { sessionId, question }) settles
ChatFollowupReturns(i, ok) ==
  /\ i \in 1..Len(outstanding)
  /\ outstanding[i].command = "chat_followup"
  /\ messages' =
       Append(messages,
              IF ~ok THEN ErrorMessage("chat_followup")
              ELSE Message("assistant", << "an answer" >>, Some("ai")))
  /\ UNCHANGED << sessionId, sessionsIssued >>
  /\ Settled(i, ok)

\* invoke("run_query", { query, sessionId: null }) settles; the backend
\* opens a session, or answers without one, and may interpret the results
RunQueryReturns(i, ok, withSession, interpretation) ==
  /\ i \in 1..Len(outstanding)
  /\ outstanding[i].command = "run_query"
  /\ LET resp == [ session_id |->
                     IF withSession
                     THEN Some("session-" \o ToString(sessionsIssued + 1))
                     ELSE None,
                   ai_interpretation |-> interpretation ]
     IN /\ sessionId' = IF ok THEN resp.session_id ELSE sessionId
        /\ sessionsIssued' = IF ok /\ withSession THEN sessionsIssued + 1
                             ELSE sessionsIssued
        /\ messages' =
             Append(messages,
                    IF ~ok THEN ErrorMessage("run_query")
                    ELSE Message("assistant",
                                 << OrStr(resp.ai_interpretation, "Query completed.") >>,
                                 Some("ai")))
  /\ Settled(i, ok)

\* handleNewSession: the button is shown while a session id is set
HandleNewSession ==
  /\ submits + newSessions < MaxQueryClicks
  /\ TruthyStr(sessionId)
  /\ newSessions' = newSessions + 1
  /\ sessionId' = None
  /\ messages' = <<>>
  /\ UNCHANGED << queryLoading, mode, outstanding, answered, submits,
                  sessionsIssued, ignoredSubmit >>
  /\ QueryFrame

NextQueryPanel ==
  \/ \E m \in { "ai", "search" } : SetMode(m)
  \/ \E text \in QueryTexts : HandleSubmit(text)
  \/ \E i \in 1..Len(outstanding), ok \in BOOLEAN, count \in { 0, 2 } :
       SearchIndexReturns(i, ok, count)
  \/ \E i \in 1..Len(outstanding), ok \in BOOLEAN : ChatFollowupReturns(i, ok)
  \/ \E i \in 1..Len(outstanding), ok \in BOOLEAN, withSession \in BOOLEAN,
        interpretation \in { None, Some("two files match") } :
       RunQueryReturns(i, ok, withSession, interpretation)
  \/ HandleNewSession

SpecQueryPanel == InitQueryPanel /\ [][NextQueryPanel]_vars





(***************************************************************************)
(* Properties                                                              *)
(***************************************************************************)
\* the start response of flow f was read and accepted: ok is true and
\* options are present
StartAccepted(f) ==
  /\ startRes[f].transport = "ok"
  /\ TruthyBool(OptField(startRes[f].body, "ok"))
  /\ IsSome(OptField(startRes[f].body, "options"))

ReceivedOptions(f) == startRes[f].body[1].options[1]

UrlAlphabet == (B64Alphabet \ { "+", "/" }) \cup { "-", "_" }

\* no base64 decoder, strict or forgiving, accepts s: an impossible length,
\* or a character that is in neither alphabet, nor padding, nor whitespace
NoDecoderAccepts(s) ==
  \/ (\A i \in 1..Len(s) : s[i] \in UrlAlphabet) /\ Len(s) % 4 = 1
  \/ \E i \in 1..Len(s) :
       s[i] \notin UrlAlphabet \cup { "+", "/", "=" } \cup AsciiWhitespace

\* an encoded field that is missing or that nothing can decode
FieldUnusable(o) == IsNone(o) \/ NoDecoderAccepts(o[1])

ListUnusable(list) ==
  IsSome(list) /\ \E i \in 1..Len(list[1]) : FieldUnusable(list[1][i].id)

\* the options lack publicKey, the challenge, or (registration) the user and
\* its id, or carry an encoded field that cannot be decoded
MalformedOptions(k, options) ==
  \/ IsNone(options.publicKey)
  \/ FieldUnusable(options.publicKey[1].challenge)
  \/ /\ k = "register"
     /\ \/ IsNone(options.publicKey[1].user)
        \/ FieldUnusable(options.publicKey[1].user[1].id)
        \/ ListUnusable(options.publicKey[1].excludeCredentials)
  \/ /\ k = "login"
     /\ ListUnusable(options.publicKey[1].allowCredentials)

\* the flows whose authenticator invocation has not returned
PendingCeremonies == { f \in Flows : pc[f] = "ceremony" }

\* C1: a flow started while another flow is Started or CeremonyPerformed
\* ends in a failure and never invokes the authenticator (nor the finish
\* endpoint).
C1_ConcurrentStartRejected ==
  \A f \in Flows :
    busyAtInvoke[f] =>
      /\ authCalls[f] = 0
      /\ finishCalls[f] = 0
      /\ pc[f] = "done" => (result[f][1].type = "returned" /\ ~result[f][1].ok)

\* C2: at most one authenticator invocation is pending at any time.
C2_OneCeremonyPending == Cardinality(PendingCeremonies) <= 1

\* C3: when the start response is ok with options present but the options
\* are malformed, the flow invokes the authenticator zero times and sends
\* no finish request.
C3_MalformedOptionsNoCeremony ==
  \A f \in Flows :
    (StartAccepted(f) /\ MalformedOptions(kind[f], ReceivedOptions(f))) =>
      authCalls[f] = 0 /\ finishCalls[f] = 0 /\ pc[f] = "done"

\* a login flow has ended on options whose publicKey has no challenge
C3_Witness ==
  \E f \in Flows :
    /\ pc[f] = "done" /\ kind[f] = "login" /\ StartAccepted(f)
    /\ IsSome(ReceivedOptions(f).publicKey)
    /\ IsNone(ReceivedOptions(f).publicKey[1].challenge)
    /\ authCalls[f] = 0

\* C4: registerPasskey, loginPasskey and createApiKey never end by
\* throwing: every ended invocation returned an object, and a failure is
\* ok = false with an error message.
C4_NeverThrows ==
  /\ \A f \in Flows :
       pc[f] = "done" =>
         /\ result[f][1].type = "returned"
         /\ ~result[f][1].ok => TruthyStr(result[f][1].error)
  /\ akPc = "done" =>
         /\ akResult[1].type = "returned"
         /\ ~akResult[1].ok => TruthyStr(akResult[1].error)

\* C5: when the accepted start options are malformed, the flow ends in a
\* returned failure outcome, before any authenticator ceremony.
C5_MalformedOptionsFailureOutcome ==
  \A f \in Flows :
    (pc[f] = "done" /\ StartAccepted(f)
       /\ MalformedOptions(kind[f], ReceivedOptions(f))) =>
      /\ result[f][1].type = "returned"
      /\ ~result[f][1].ok
      /\ TruthyStr(result[f][1].error)
      /\ authCalls[f] = 0

\* C6: in registerPasskey, accepted options that decode but lack the rp
\* metadata never reach navigator.credentials.create.
C6_MissingRpNoCeremony ==
  \A f \in Flows :
    (kind[f] = "register" /\ StartAccepted(f)
       /\ ~MalformedOptions(kind[f], ReceivedOptions(f))
       /\ IsNone(ReceivedOptions(f).publicKey[1].rp)) =>
      authCalls[f] = 0

\* the authenticator invocation of flow f threw or gave no credential
CeremonyGaveNothing(f) ==
  IsSome(ceremony[f]) /\ (ceremony[f][1].throws \/ IsNone(ceremony[f][1].credential))

\* the message the claim expects: the error's own, else the fixed one
ExpectedCeremonyMessage(f) ==
  IF ceremony[f][1].throws /\ IsSome(ceremony[f][1].message)
     /\ ceremony[f][1].message[1] # ""
  THEN ceremony[f][1].message[1]
  ELSE IF kind[f] = "register" THEN "User cancelled registration"
       ELSE "User cancelled authentication"

\* C7: when the authenticator throws or returns no credential, the flow
\* sends no finish request and returns a failure with the error's message,
\* or the flow's cancellation message when there is none.
C7_CeremonyFailureNoFinish ==
  \A f \in Flows :
    CeremonyGaveNothing(f) =>
      /\ finishCalls[f] = 0
      /\ pc[f] = "done"
      /\ result[f] = Some([ type |-> "returned", ok |-> FALSE,
                            error |-> Some(ExpectedCeremonyMessage(f)),
                            userHash |-> None, sessionToken |-> None ])

\* a flow has ended after its authenticator invocation threw with a message
C7_Witness ==
  \E f \in Flows :
    /\ pc[f] = "done" /\ authCalls[f] = 1 /\ IsSome(ceremony[f])
    /\ ceremony[f][1].throws /\ TruthyStr(ceremony[f][1].message)

\* the finish response of flow f was read and its body is an object
FinishAnswered(f) ==
  finishRes[f].transport = "ok" /\ IsSome(finishRes[f].body)

\* C8: a finish response with ok:false makes the result a failure with an
\* error and with neither userHash nor sessionToken.
C8_FinishRejected ==
  \A f \in Flows :
    (FinishAnswered(f) /\ finishRes[f].body[1].ok = Some(FALSE)) =>
      /\ pc[f] = "done"
      /\ result[f][1].type = "returned"
      /\ ~result[f][1].ok
      /\ TruthyStr(result[f][1].error)
      /\ IsNone(result[f][1].userHash)
      /\ IsNone(result[f][1].sessionToken)

\* a flow has ended on a finish response with ok:false that carries
\* identity fields all the same
C8_Witness ==
  \E f \in Flows :
    /\ pc[f] = "done" /\ FinishAnswered(f) /\ IsSome(ceremony[f])
    /\ finishRes[f].body[1].ok = Some(FALSE)
    /\ IsSome(finishRes[f].body[1].user_hash)

\* C9: a finish response with ok:true, user_hash u and session_token t
\* makes the result a success with userHash u and sessionToken t.
C9_FinishAccepted ==
  \A f \in Flows :
    (FinishAnswered(f) /\ finishRes[f].body[1].ok = Some(TRUE)) =>
      /\ pc[f] = "done"
      /\ result[f][1].type = "returned"
      /\ result[f][1].ok
      /\ result[f][1].userHash = finishRes[f].body[1].user_hash
      /\ result[f][1].sessionToken = finishRes[f].body[1].session_token

\* a flow has ended on ok:true with user_hash "abc" and session_token "xyz"
C9_Witness ==
  \E f \in Flows :
    /\ pc[f] = "done" /\ FinishAnswered(f) /\ IsSome(ceremony[f])
    /\ finishRes[f].body[1].ok = Some(TRUE)
    /\ finishRes[f].body[1].user_hash = Some("abc")
    /\ finishRes[f].body[1].session_token = Some("xyz")
    /\ result[f][1].userHash = Some("abc")

\* C10: every returned result is a success with both identity fields
\* populated, or a failure with an error and no identity field.
C10_TwoShapes ==
  \A f \in Flows :
    (pc[f] = "done" /\ result[f][1].type = "returned") =>
      \/ /\ result[f][1].ok
         /\ TruthyStr(result[f][1].userHash)
         /\ TruthyStr(result[f][1].sessionToken)
      \/ /\ ~result[f][1].ok
         /\ TruthyStr(result[f][1].error)
         /\ IsNone(result[f][1].userHash)
         /\ IsNone(result[f][1].sessionToken)

\* the start response of flow f was read, and it came with a non-ok HTTP
\* status or says ok:false
StartRefused(f) ==
  /\ startRes[f].transport = "ok"
  /\ \/ ~startRes[f].httpOk
     \/ OptField(startRes[f].body, "ok") = Some(FALSE)

\* C11: a start response with a non-ok HTTP status or with ok:false makes
\* the flow fail without an authenticator invocation or a finish request,
\* whatever else its body contains.
C11_RefusedStartFails ==
  \A f \in Flows :
    StartRefused(f) =>
      /\ authCalls[f] = 0
      /\ finishCalls[f] = 0
      /\ pc[f] = "done"
      /\ result[f][1].type = "returned"
      /\ ~result[f][1].ok

\* the finish response of flow f was read and came with a non-ok HTTP status
FinishRefusedByStatus(f) ==
  finishRes[f].transport = "ok" /\ ~finishRes[f].httpOk

\* C12: a finish response with a non-ok HTTP status makes the result a
\* failure with no userHash or sessionToken, even when its body says
\* ok:true and carries user_hash and session_token.
C12_FinishStatusFails ==
  \A f \in Flows :
    FinishRefusedByStatus(f) =>
      /\ pc[f] = "done"
      /\ result[f][1].type = "returned"
      /\ ~result[f][1].ok
      /\ IsNone(result[f][1].userHash)
      /\ IsNone(result[f][1].sessionToken)

\* C13: a challenge is submitted to a finish endpoint at most once: no flow
\* sends more than one finish request, and no two finish requests carry the
\* same challenge.
C13_ChallengeSubmittedOnce ==
  /\ \A f \in Flows : finishCalls[f] <= 1
  /\ \A f \in Flows : finishCalls[f] = 1 <=> IsSome(finishReq[f])
  /\ \A f, g \in Flows :
       (f # g /\ IsSome(finishReq[f]) /\ IsSome(finishReq[g])) =>
         finishReq[f][1].challenge # finishReq[g][1].challenge

\* two flows have each sent a finish request and one of them has failed
C13_Witness ==
  \E f, g \in Flows :
    /\ f # g /\ finishCalls[f] = 1 /\ finishCalls[g] = 1
    /\ pc[f] = "done" /\ ~result[f][1].ok

\* the credential the authenticator gave flow f
OwnCredential(f) == ceremony[f][1].credential[1]

\* the decoded buffers of the encoded credential d are those of credential c
SameCredential(k, d, c) ==
  /\ d.id = c.id
  /\ d.type = c.type
  /\ base64UrlDecode(Some(d.rawId)).bytes = c.rawId
  /\ base64UrlDecode(Some(d.response.clientDataJSON)).bytes
       = c.response.clientDataJSON
  /\ IF k = "register" THEN
       base64UrlDecode(Some(d.response.attestationObject)).bytes
         = c.response.attestationObject
     ELSE
       /\ base64UrlDecode(Some(d.response.authenticatorData)).bytes
            = c.response.authenticatorData
       /\ base64UrlDecode(Some(d.response.signature)).bytes
            = c.response.signature

\* C14: the finish request of a flow carries the raw challenge of the
\* flow's own start response and the credential of its own authenticator
\* invocation, never those of another flow.
C14_OwnChallengeAndCredential ==
  \A f \in Flows :
    IsSome(finishReq[f]) =>
      /\ StartAccepted(f)
      /\ IsSome(ReceivedOptions(f).publicKey)
      /\ finishReq[f][1].challenge = ReceivedOptions(f).publicKey[1].challenge
      /\ IsSome(ceremony[f]) /\ IsSome(ceremony[f][1].credential)
      /\ SameCredential(kind[f], finishReq[f][1].credential, OwnCredential(f))
      /\ \A g \in Flows \ {f} :
           /\ (StartAccepted(g) /\ IsSome(ReceivedOptions(g).publicKey)) =>
                finishReq[f][1].challenge
                  # ReceivedOptions(g).publicKey[1].challenge
           /\ (IsSome(ceremony[g]) /\ IsSome(ceremony[g][1].credential)) =>
                finishReq[f][1].credential.id # OwnCredential(g).id

\* two flows run their ceremonies at the same time and the one started
\* second has sent its finish request
C14_Witness ==
  \E f, g \in Flows :
    /\ f # g /\ IsSome(finishReq[f]) /\ pc[g] = "ceremony"
    /\ kind[f] # kind[g]
    /\ ReceivedOptions(f).publicKey[1].challenge = Some(FreshChallenge(2))

\* the steps of flow f so far are in order: each made at most once, the
\* authenticator invoked only on an accepted start response, the finish
\* request sent only with a credential the authenticator gave
StepsInOrder(f) ==
  /\ startCalls[f] <= 1 /\ authCalls[f] <= 1 /\ finishCalls[f] <= 1
  /\ pc[f] = "idle" => startCalls[f] = 0
  /\ pc[f] = "start" => (startCalls[f] = 1 /\ authCalls[f] = 0)
  /\ pc[f] = "ceremony" => (authCalls[f] = 1 /\ finishCalls[f] = 0)
  /\ pc[f] = "finish" => finishCalls[f] = 1
  /\ authCalls[f] = 1 => (startCalls[f] = 1 /\ StartAccepted(f))
  /\ finishCalls[f] = 1 =>
       /\ authCalls[f] = 1
       /\ IsSome(ceremony[f])
       /\ ~ceremony[f][1].throws
       /\ IsSome(ceremony[f][1].credential)

\* a flow that has ended makes no further request or invocation and keeps
\* its outcome
EndedStaysEnded(f) ==
  pc[f] = "done" =>
    /\ pc'[f] = "done"
    /\ result'[f] = result[f]
    /\ startCalls'[f] = startCalls[f]
    /\ authCalls'[f] = authCalls[f]
    /\ finishCalls'[f] = finishCalls[f]

\* C15: within one invocation the steps occur in the order start request,
\* authenticator invocation, finish request, each at most once and each
\* only after the previous one returned and was accepted; an ended flow
\* does nothing more.
C15_StepOrder ==
  /\ [](\A f \in Flows : StepsInOrder(f))
  /\ [][\A f \in Flows : EndedStaysEnded(f)]_vars

\* a flow has failed at its finish step after all three steps were made
C15_Witness ==
  \E f \in Flows :
    /\ pc[f] = "done" /\ ~result[f][1].ok
    /\ startCalls[f] = 1 /\ authCalls[f] = 1 /\ finishCalls[f] = 1

\* the invocation of flow f has given its caller an outcome: a returned
\* result or a thrown error
Outcome(f) == pc[f] = "done" /\ IsSome(result[f])

\* C16: when every start request, authenticator invocation and finish
\* request eventually returns, every invocation eventually gives its caller
\* an outcome, a success or an error.
C16_EveryInvocationEnds ==
  \A f \in Flows : (pc[f] \in { "start", "ceremony", "finish" }) ~> Outcome(f)

\* an invocation has ended with a success after all three of its steps
\* returned
C16_Witness ==
  \E f \in Flows :
    /\ Outcome(f) /\ result[f][1].type = "returned" /\ result[f][1].ok
    /\ startCalls[f] = 1 /\ authCalls[f] = 1 /\ finishCalls[f] = 1

\* C17: for every byte buffer b, of length 0, 1, 2 or 3 modulo 3,
\* base64UrlDecode(base64UrlEncode(b)) returns the bytes of b.
C17_RoundTrip ==
  IsSome(decodedBack) =>
    /\ decodedBack[1].throws = "none"
    /\ decodedBack[1].bytes = buffer

\* a buffer of a length that is not a multiple of 3, whose encoding has a
\* translated character, has been encoded and decoded back
C17_Witness ==
  /\ IsSome(decodedBack)
  /\ Len(buffer) % 3 # 0
  /\ \E i \in 1..Len(encoded[1]) : encoded[1][i] \in { "-", "_" }

\* the number of "=" btoa puts at the end of the encoding of a buffer of n
\* bytes
PaddingOf(n) == (3 - (n % 3)) % 3

\* C18: for every byte buffer b, base64UrlEncode(b) has only characters of
\* the base64url alphabet (A-Z, a-z, 0-9, "-", "_"): it is the standard
\* base64 of b with every "+" replaced by "-", every "/" by "_", and all
\* trailing "=" padding removed.
C18_EncodeUrlAlphabet ==
  IsSome(encoded) =>
    LET out == encoded[1]
        std == btoa(buffer)
    IN /\ \A i \in 1..Len(out) : out[i] \in UrlAlphabet
       /\ Len(out) = Len(std) - PaddingOf(Len(buffer))
       /\ \A i \in 1..Len(out) :
            out[i] = IF std[i] = "+" THEN "-"
                     ELSE IF std[i] = "/" THEN "_"
                     ELSE std[i]

\* a buffer whose standard base64 has "+", "/" and padding has been encoded
C18_Witness ==
  /\ IsSome(encoded)
  /\ Len(buffer) % 3 # 0
  /\ \E i \in 1..Len(btoa(buffer)) : btoa(buffer)[i] = "+"
  /\ \E i \in 1..Len(btoa(buffer)) : btoa(buffer)[i] = "/"

\* base64UrlDecode(str) has been called and failed with an error
DecodeFailed == IsSome(decoded) /\ decoded[1].throws # "none"

C20_ImpossibleLengthRejected ==
  ( /\ IsSome(decoded)
    /\ \A i \in 1..Len(str) : str[i] \in UrlAlphabet
    /\ Len(str) % 4 = 1 )
    => DecodeFailed

\* a string of one complete group of base64url characters and one dangling
\* character has been given to base64UrlDecode
C20_Witness ==
  /\ IsSome(decoded)
  /\ Len(str) = 5
  /\ \A i \in 1..Len(str) : str[i] \in UrlAlphabet
  /\ \E i \in 1..Len(str) : str[i] \in { "-", "_" }

\* C21: base64UrlDecode accepts padded and padding-stripped input alike: for
\* every byte buffer b, decoding the padded base64url encoding of b and
\* decoding the stripped encoding both return the bytes of b.
C21_PaddedAndStrippedAgree ==
  IsSome(decodedPadded) =>
    /\ decodedPadded[1].throws = "none" /\ decodedPadded[1].bytes = buffer
    /\ decodedBack[1].throws = "none" /\ decodedBack[1].bytes = buffer

\* a buffer whose padded encoding ends in "=" and differs from the stripped
\* one has been decoded from both
C21_Witness ==
  /\ IsSome(decodedPadded)
  /\ Len(buffer) % 3 = 1
  /\ base64UrlEncodePadded(buffer) # encoded[1]
  /\ base64UrlEncodePadded(buffer)[4] = "="

\* the publicKey descriptor given to the translator, when there is one
GivenPk == serverOptions.publicKey[1]

\* the translator call returned a request
ConvertedRequest == translated[1].value[1]

Converted(k) ==
  /\ convKind = k /\ IsSome(translated) /\ translated[1].throws = "none"

KeepsSupplied(supplied, carried) == IsSome(supplied) => carried = supplied[1]

\* C23: the translators apply a default only when the server omitted the
\* field: a supplied timeout (0 included), attestation,
\* authenticatorAttachment, residentKey or userVerification is carried
\* exactly, and rp and pubKeyCredParams are carried through unchanged.
C23_SuppliedValuesKept ==
  /\ Converted("register") =>
       /\ KeepsSupplied(GivenPk.timeout, ConvertedRequest.timeout)
       /\ KeepsSupplied(GivenPk.attestation, ConvertedRequest.attestation)
       /\ \A field \in { "authenticatorAttachment", "residentKey",
                         "userVerification" } :
            KeepsSupplied(OptField(GivenPk.authenticatorSelection, field),
                          ConvertedRequest.authenticatorSelection[field])
       /\ ConvertedRequest.rp = GivenPk.rp
       /\ ConvertedRequest.pubKeyCredParams = GivenPk.pubKeyCredParams
  /\ Converted("login") =>
       /\ KeepsSupplied(GivenPk.timeout, ConvertedRequest.timeout)
       /\ KeepsSupplied(GivenPk.userVerification,
                        ConvertedRequest.userVerification)

\* the allowCredentials list the server sent, empty when it sent none
GivenAllowList ==
  IF IsSome(GivenPk.allowCredentials) THEN GivenPk.allowCredentials[1] ELSE <<>>

\* C24: convertRequestOptions decodes the challenge, sets timeout to 60000
\* and userVerification to "preferred" when the server omits them, and
\* returns an allowCredentials list with one entry per server entry, in the
\* same order, each with its id decoded and its type and transports
\* unchanged (an empty list when the server sends none).
C24_RequestTranslation ==
  Converted("login") =>
    /\ ConvertedRequest.challenge = base64UrlDecode(GivenPk.challenge).bytes
    /\ IsNone(GivenPk.timeout) => ConvertedRequest.timeout = 60000
    /\ IsNone(GivenPk.userVerification)
         => ConvertedRequest.userVerification = "preferred"
    /\ Len(ConvertedRequest.allowCredentials) = Len(GivenAllowList)
    /\ \A i \in 1..Len(GivenAllowList) :
         /\ ConvertedRequest.allowCredentials[i].id =
              base64UrlDecode(GivenAllowList[i].id).bytes
         /\ base64UrlDecode(GivenAllowList[i].id).throws = "none"
         /\ ConvertedRequest.allowCredentials[i].type = GivenAllowList[i].type
         /\ ConvertedRequest.allowCredentials[i].transports =
              GivenAllowList[i].transports

\* login options without timeout and userVerification and with two
\* different credential descriptors have been translated
C24_Witness ==
  /\ Converted("login")
  /\ IsNone(GivenPk.timeout) /\ IsNone(GivenPk.userVerification)
  /\ Len(GivenAllowList) = 2
  /\ GivenAllowList[1].id # GivenAllowList[2].id
  /\ GivenAllowList[1].transports # GivenAllowList[2].transports
  /\ ConvertedRequest.challenge = << 1, 2, 3 >>

\* createApiKey ended after it read the response body as JSON
KeyAnswered == akPc = "done" /\ akRes.transport = "ok"

\* the body of the issuance response names an error
KeyErrorGiven == TruthyStr(OptField(akRes.body, "error"))

NoKeyReturned == KeyFailure("No API key returned from server")

\* the result is a failure that reports the server's refusal: the server's
\* error message, or the fallback naming the HTTP status
IssuanceRejected(r) ==
  /\ r.type = "returned" /\ ~r.ok /\ IsNone(r.apiKey)
  /\ r.error \in { OptField(akRes.body, "error"),
                   Some(IssuanceFallback(akRes.status)) }
  /\ r # NoKeyReturned

\* C25: createApiKey, on a 2xx response whose body has no error and has
\* api_key or key, returns success with that key, api_key first and key only
\* when api_key is absent; on a 2xx response with neither it returns the
\* NoKeyReturned failure; on a non-2xx response (e.g. 401) it returns the
\* IssuanceRejected failure.
C25_IssuanceOutcomes ==
  KeyAnswered =>
    /\ (HttpOk(akRes.status) /\ IsSome(akRes.body) /\ ~KeyErrorGiven) =>
         LET data == akRes.body[1] IN
           /\ TruthyStr(data.api_key) => akResult[1] = KeySuccess(data.api_key[1])
           /\ (~TruthyStr(data.api_key) /\ TruthyStr(data.key))
                => akResult[1] = KeySuccess(data.key[1])
           /\ (~TruthyStr(data.api_key) /\ ~TruthyStr(data.key))
                => akResult[1] = NoKeyReturned
    /\ ~HttpOk(akRes.status) => IssuanceRejected(akResult[1])

\* a 200 response with both api_key and key has been answered with api_key
C25_Witness ==
  /\ KeyAnswered /\ akRes.status = 200 /\ IsSome(akRes.body)
  /\ akRes.body[1].api_key = Some("sk_live_1")
  /\ akRes.body[1].key = Some("sk_live_2")
  /\ akResult[1].apiKey = Some("sk_live_1")

\* C26: createApiKey never gives an API key alongside a failure: when the
\* response has a non-2xx status or names an error, the result is ok = false
\* with no apiKey, even if the body also has api_key or key; and every
\* ok = true result has a non-empty apiKey.
C26_NoKeyWithFailure ==
  akPc = "done" =>
    /\ (akRes.transport # "networkError" /\ (~HttpOk(akRes.status) \/ KeyErrorGiven))
         => (~akResult[1].ok /\ IsNone(akResult[1].apiKey))
    /\ ~akResult[1].ok => IsNone(akResult[1].apiKey)
    /\ akResult[1].ok => TruthyStr(akResult[1].apiKey)

\* a 403 response that carries an api_key has been answered with a failure
C26_Witness ==
  /\ KeyAnswered /\ akRes.status = 403 /\ IsSome(akRes.body)
  /\ akRes.body[1].api_key = Some("sk_live_1")
  /\ ~akResult[1].ok

\* the message of a server-caused failure: the server's error when the body
\* carries one, otherwise the fallback
PreferredMessage(body, fallback) ==
  IF TruthyStr(OptField(body, "error")) THEN OptField(body, "error")
  ELSE Some(fallback)

\* flow f ended because its start response was rejected
EndedAtStart(f) ==
  /\ pc[f] = "done" /\ startRes[f].transport = "ok" /\ authCalls[f] = 0
  /\ StartRejected(startRes[f].body)

\* flow f ended because its finish response was rejected
EndedAtFinish(f) ==
  /\ pc[f] = "done" /\ finishCalls[f] = 1 /\ finishRes[f].transport = "ok"
  /\ ~TruthyBool(OptField(finishRes[f].body, "ok"))

\* createApiKey ended because the server refused to issue a key
EndedAtIssuance ==
  /\ KeyAnswered
  /\ ~(HttpOk(akRes.status) /\ IsNone(akRes.body))
  /\ ~HttpOk(akRes.status) \/ KeyErrorGiven

\* C27: for every failure caused by a server response (start rejected,
\* finish rejected, issuance rejected) the error of the result is the
\* server's error message when the response carries one, and otherwise one
\* fixed fallback string for that failure kind (for issuance, one that names
\* the HTTP status).
C27_ServerMessagePreferred ==
  /\ \A f \in Flows :
       /\ EndedAtStart(f) =>
            result[f][1] =
              [ Failure("") EXCEPT !.error =
                  PreferredMessage(startRes[f].body,
                    IF kind[f] = "register" THEN "Failed to start registration"
                    ELSE "Failed to start authentication") ]
       /\ EndedAtFinish(f) =>
            result[f][1] =
              [ Failure("") EXCEPT !.error =
                  PreferredMessage(finishRes[f].body,
                    IF kind[f] = "register" THEN "Registration failed"
                    ELSE "Authentication failed") ]
  /\ EndedAtIssuance =>
       akResult[1] =
         [ KeyFailure("") EXCEPT !.error =
             PreferredMessage(akRes.body,
               "API key creation failed (" \o ToString(akRes.status) \o ")") ]

\* issuance has been refused with a 403 response that carries no error
\* message
C27_Witness ==
  /\ EndedAtIssuance
  /\ akRes.status = 403
  /\ ~KeyErrorGiven
  /\ akResult[1].error = Some("API key creation failed (403)")

\* the start response of flow f says ok:true and has no options object
OkWithoutOptions(f) ==
  /\ startRes[f].transport = "ok" /\ IsSome(startRes[f].body)
  /\ startRes[f].body[1].ok = Some(TRUE)
  /\ IsNone(startRes[f].body[1].options)

\* C28: a start response with ok:true and no options object is a rejected
\* start: the flow returns a failure with the generic start message, or the
\* server's error if present, and neither the translator, the authenticator
\* nor the finish endpoint is used.
C28_OkWithoutOptionsRejected ==
  \A f \in Flows :
    OkWithoutOptions(f) =>
      /\ pc[f] = "done"
      /\ result[f][1].type = "returned" /\ ~result[f][1].ok
      /\ result[f][1].error =
           PreferredMessage(startRes[f].body,
             IF kind[f] = "register" THEN "Failed to start registration"
             ELSE "Failed to start authentication")
      /\ IsNone(request[f]) /\ IsNone(challenge[f])
      /\ authCalls[f] = 0 /\ IsNone(ceremony[f])
      /\ finishCalls[f] = 0 /\ IsNone(finishReq[f])

\* a start response {ok:true, error} without options has ended a flow with
\* the server's error
C28_Witness ==
  \E f \in Flows :
    /\ OkWithoutOptions(f) /\ pc[f] = "done"
    /\ startRes[f].body[1].error = Some(ServerError)
    /\ result[f][1].error = Some(ServerError)

\* C29: each completed external sign-in is delivered to the application
\* exactly once: once its deep link has been handled, handleAuthCallback has
\* applied its credentials, and invoked save_config for them, once and not
\* more, although the application listens on both "deep-link-auth" and
\* onOpenUrl.
C29_SignInAppliedOnce ==
  /\ \A n \in 1..signIns : applied[n] <= 1
  /\ saveCalls <= signIns

\* the config fields handleAuthCallback is not to touch
OtherConfigFields ==
  { "api_base_url", "watched_folder", "auto_ingest", "environment" }

\* what one call of handleAuthCallback(data) may change, per the claim
CallbackEffect(data) ==
  IF IsNone(data.api_key) \/ ~TruthyStr(data.user_hash)
  THEN /\ config' = config
       /\ saveCalls' = saveCalls
       /\ success' = success /\ successTimers' = successTimers
  ELSE /\ config'.api_key = data.api_key[1]
       /\ config'.user_hash = data.user_hash
       /\ config'.session_token = data.session_token
       /\ \A field \in OtherConfigFields : config'[field] = config[field]
       /\ saveCalls' = saveCalls + 1

\* the auth URL of a list of opened URLs
AuthUrlOf(urls) == CHOOSE u \in { urls[i] : i \in 1..Len(urls) } : u.host = "auth"

\* C30: handleAuthCallback ignores an auth callback that lacks api_key or
\* user_hash: the config is unchanged, save_config is not invoked and no
\* success message is shown; when both are present, only api_key, user_hash
\* and session_token of the config change and every other field keeps its
\* value.
C30_CallbackFrame ==
  [][ /\ (Len(eventQueue) > 0 /\ eventQueue' = Tail(eventQueue))
          => CallbackEffect(Head(eventQueue))
      /\ (Len(urlQueue) > 0 /\ urlQueue' = Tail(urlQueue))
          => CallbackEffect(AuthUrlOf(Head(urlQueue)).params) ]_vars

\* a callback without api_key or user_hash was ignored, and a later one was
\* applied to a config loaded with a custom environment
C30_Witness ==
  /\ signIns = 2 /\ eventQueue = <<>> /\ urlQueue = <<>>
  /\ applied = << 0, 1 >>
  /\ config = [ CustomConfig EXCEPT !.api_key = "sk_live_2",
                                    !.user_hash = Some("hash-2"),
                                    !.session_token = None ]

\* C31: whenever handleAuthCallback accepts a callback and shows "Signed in
\* and API key saved.", the application is authenticated afterwards
\* (isAuthenticated is true), for every accepted callback payload.
C31_AcceptedMeansAuthenticated ==
  [][ ( /\ \/ Len(eventQueue) > 0 /\ eventQueue' = Tail(eventQueue)
           \/ Len(urlQueue) > 0 /\ urlQueue' = Tail(urlQueue)
        /\ applied' # applied )
      => success' = Some(SignedInMessage) /\ isAuthenticated(config') ]_vars

\* the credentials of a config
Credentials(cfg) == << cfg.api_key, cfg.session_token, cfg.user_hash >>

\* C32: the in-memory config and the persisted config never diverge on
\* credentials: once every save_config has settled, whether it succeeded or
\* failed, the credentials in memory are the persisted ones, for saveConfig
\* (sign-out and save) and for the credentials applied by handleAuthCallback.
C32_CredentialsInStep ==
  (pendingSaves = <<>> /\ saveOps = <<>>)
    => Credentials(config) = Credentials(persisted)

\* the i-th outstanding saveConfig call is the one of a sign-out, and it
\* succeeds in this step
SignOutSucceeds(i) ==
  /\ saveOps[i].op = "signOut"
  /\ saveOps' = SubSeq(saveOps, 1, i - 1) \o SubSeq(saveOps, i + 1, Len(saveOps))
  /\ successTimers' = successTimers + 1

EventEntries(n) ==
  [ k \in 1..n |->
      [ filename |-> ActivityPayload(n - k + 1).filename,
        status |-> ActivityPayload(n - k + 1).status,
        error |-> ActivityPayload(n - k + 1).error,
        timestamp |-> ToString(n - k + 1) ] ]

\* C34: after any sequence of "sync-activity" events, recent_activity holds
\* at most 50 entries, the newest first: the most recent events (up to 50)
\* followed by as much of the list loaded at start-up as still fits; an event
\* never changes the watching, folder or file_count fields.
C34_RecentActivity ==
  /\ [](/\ Len(syncStatus.recent_activity) <= 50
        /\ syncStatus.recent_activity =
             SubSeq(EventEntries(activityEvents) \o loadedStatus.recent_activity,
                    1, Len(syncStatus.recent_activity))
        /\ Len(syncStatus.recent_activity) < 50 =>
             Len(syncStatus.recent_activity)
               = activityEvents + Len(loadedStatus.recent_activity))
  /\ [][ activityEvents' # activityEvents =>
           /\ syncStatus'.watching = syncStatus.watching
           /\ syncStatus'.folder = syncStatus.folder
           /\ syncStatus'.file_count = syncStatus.file_count ]_vars

\* more than 50 events have arrived on top of a loaded list: the list is
\* full, starts with the latest event and has dropped every loaded entry
C34_Witness ==
  /\ activityEvents = 52
  /\ Len(loadedStatus.recent_activity) = 2
  /\ Len(syncStatus.recent_activity) = 50
  /\ syncStatus.recent_activity[1].filename = "file-52"
  /\ syncStatus.recent_activity[50].filename = "file-3"
  /\ syncStatus.watching = FALSE

\* a backend command settled in this step: a handler went on to its next
\* await or ended
CommandSettled ==
  /\ tasks' # tasks
  /\ Len(tasks') <= Len(tasks)
  /\ IsSome(settled')

\* a command of this step failed
CommandFailed == CommandSettled /\ ~settled'[1].ok

\* Approve was clicked in this step
ApproveClicked ==
  /\ Len(tasks') = Len(tasks) + 1
  /\ tasks'[Len(tasks')].handler = "handleApproveAndIngest"

\* C35: the sub-phase does not stay busy after an error: a failure of
\* save_config or scan_folder during Scan & Watch returns it to "idle", a
\* failure of approve_and_ingest returns it to "review", and approving an
\* empty selection goes to "watching" without invoking approve_and_ingest.
C35_ErrorsLeaveBusyPhases ==
  [][ /\ (CommandFailed /\ settled'[1].at \in { "save_config", "scan_folder" })
           => subPhase' = "idle"
      /\ (CommandFailed /\ settled'[1].at = "approve_and_ingest")
           => subPhase' = "review"
      /\ (ApproveClicked /\ selectedFiles = {})
           => /\ subPhase' = "watching"
              /\ tasks'[Len(tasks')].at # "approve_and_ingest" ]_vars

\* after a scan that failed and one that succeeded, the approved ingestion
\* was refused and the panel is back in the review phase
C35_Witness ==
  /\ panelClicks = 3
  /\ settled = Some([ handler |-> "handleApproveAndIngest",
                      at |-> "approve_and_ingest", ok |-> FALSE ])
  /\ subPhase = "review"
  /\ selectedFiles = { "/docs/a.txt" }
  /\ panelError = Some(CommandError("approve_and_ingest"))
  /\ tasks = <<>>

\* C36: whenever the sub-phase is "watching" after handleStartWatching or
\* toggleWatching has completed, the backend is watching and
\* syncStatus.watching is true: a failed start_watching does not leave the
\* panel in the watching phase.
C36_WatchingPhaseMeansWatching ==
  ( /\ subPhase = "watching"
    /\ tasks = <<>>
    /\ IsSome(settled)
    /\ settled[1].at \in { "start_watching", "stop_watching", "get_sync_status" } )
    => (syncStatus.watching /\ backendWatching)

\* a request of handleSubmit settled in this step
RequestSettled == Len(outstanding') < Len(outstanding)

\* the form was submitted in this step
Submitted == submits' = submits + 1

\* C37: at most one backend request (search_index, run_query or
\* chat_followup) is outstanding at any time: a submit while loading is true
\* does nothing, and loading is false again once the request has completed,
\* whether it succeeded or failed, so loading never outlives the request.
C37_OneRequestAtATime ==
  /\ [](/\ Len(outstanding) <= 1
        /\ queryLoading <=> Len(outstanding) = 1)
  /\ [][ /\ (Submitted /\ queryLoading)
              => UNCHANGED << messages, queryLoading, sessionId, outstanding >>
         /\ RequestSettled => ~queryLoading' ]_vars

\* a question submitted while a request was outstanding was ignored, and
\* the request has failed since: the panel accepts input again
C37_Witness ==
  /\ ignoredSubmit = Some(<< "q" >>)
  /\ IsSome(answered) /\ ~answered[1].ok
  /\ outstanding = <<>>
  /\ ~queryLoading
  /\ Len(messages) = 2

\* C38: with no session, an AI submit invokes run_query and the session id
\* is set only if it succeeds; while a session id is set, every AI submit
\* invokes chat_followup with that same id; a failed request and an index
\* search never change the session id; New Session clears both the session
\* id and the message list.
C38_SessionProtocol ==
  [][ /\ (Len(outstanding') > Len(outstanding) /\ mode = "ai")
           => LET req == outstanding'[Len(outstanding')] IN
                IF IsNone(sessionId)
                THEN req.command = "run_query" /\ req.sessionId = None
                ELSE req.command = "chat_followup" /\ req.sessionId = sessionId
      /\ (sessionId' # sessionId /\ IsSome(sessionId'))
           => /\ RequestSettled
              /\ answered' = Some([ command |-> "run_query", ok |-> TRUE ])
              /\ IsNone(sessionId)
      /\ (RequestSettled /\ (~answered'[1].ok
                               \/ answered'[1].command = "search_index"))
           => sessionId' = sessionId
      /\ (newSessions' = newSessions + 1)
           => sessionId' = None /\ messages' = <<>>
      /\ (sessionId' # sessionId /\ IsNone(sessionId'))
           => newSessions' = newSessions + 1 ]_vars

\* a follow-up was answered in the second session, opened after New Session
C38_Witness ==
  /\ newSessions = 1
  /\ sessionsIssued = 2
  /\ sessionId = Some("session-2")
  /\ answered = Some([ command |-> "chat_followup", ok |-> TRUE ])
  /\ Len(messages) = 4
=============================================================================
